---------------------------- MODULE Spec2Model ----------------------------
(***************************************************************************)
(* A model of the Hugine 2.0 chess engine (src/hugine.cpp, first program   *)
(* in the file): the Position class with make/undo, the move generator,    *)
(* the parallel search coordinator (UCI::go / stop / SearchThread::search) *)
(* and the UCI command loop.                                               *)
(***************************************************************************)
EXTENDS Integers, Sequences, FiniteSets, TLC

(***************************************************************************)
(* Basic types and constants                                               *)
(***************************************************************************)
WHITE == 0
BLACK == 1
NO_PIECE == 0
PAWN == 1
KNIGHT == 2
BISHOP == 3
ROOK == 4
QUEEN == 5
KING == 6
NO_SQUARE == -1
NO_MOVE == 0
\* 0xFFFFFFFFu; as a 32-bit pattern it is -1, whose shifts and masks below
\* (floor division, modulus) yield the same fields as the unsigned value
NULL_MOVE == -1

PROMO_KNIGHT == 1
PROMO_BISHOP == 2
PROMO_ROOK == 3
PROMO_QUEEN == 4
CASTLE_FLAG == 5
ENPASSANT_FLAG == 6

Squares == 0..63
Colors == {WHITE, BLACK}
PieceTypes == PAWN..KING

make_square(f, r) == r * 8 + f
file_of(s) == s % 8
rank_of(s) == s \div 8
from_sq(m) == (m \div 64) % 64
to_sq(m) == m % 64
\* the 4-bit flag field (m & PROMO_MASK) >> 12
move_flag(m) == (m \div 4096) % 16
make_move_enc(from, to) == from * 64 + to
with_flag(m, flag) == m + flag * 4096
make_promotion(from, to, pt) ==
    with_flag(make_move_enc(from, to),
              CASE pt = KNIGHT -> PROMO_KNIGHT
                [] pt = BISHOP -> PROMO_BISHOP
                [] pt = ROOK -> PROMO_ROOK
                [] pt = QUEEN -> PROMO_QUEEN
                [] OTHER -> 0)
promotion_type(m) ==
    CASE move_flag(m) = PROMO_KNIGHT -> KNIGHT
      [] move_flag(m) = PROMO_BISHOP -> BISHOP
      [] move_flag(m) = PROMO_ROOK -> ROOK
      [] move_flag(m) = PROMO_QUEEN -> QUEEN
      [] OTHER -> NO_PIECE
is_castling(m) == move_flag(m) = CASTLE_FLAG
is_en_passant(m) == move_flag(m) = ENPASSANT_FLAG

piece_code(c, pt) == c * 8 + pt
piece_color(pc) == pc \div 8
piece_type(pc) == pc % 8

Abs(x) == IF x < 0 THEN -x ELSE x
Min(a, b) == IF a < b THEN a ELSE b
Max(a, b) == IF a > b THEN a ELSE b

\* ascending enumeration of a set of integers (the order pop_lsb yields)
SortedSeq(S) ==
    [i \in 1..Cardinality(S) |-> CHOOSE x \in S : Cardinality({y \in S : y < x}) = i - 1]
lsb(S) == CHOOSE x \in S : \A y \in S : x <= y

RECURSIVE Flatten(_)
Flatten(ss) == IF ss = <<>> THEN <<>> ELSE Head(ss) \o Flatten(Tail(ss))
SeqToSet(s) == {s[i] : i \in 1..Len(s)}

(***************************************************************************)
(* Bitboards::init - knight, king and pawn attack tables                   *)
(***************************************************************************)
OnBoard(f, r) == f >= 0 /\ f < 8 /\ r >= 0 /\ r < 8
KnightDeltas == {<<-2,-1>>, <<-2,1>>, <<-1,-2>>, <<-1,2>>, <<1,-2>>, <<1,2>>, <<2,-1>>, <<2,1>>}
KingDeltas == {<<df, dr>> : df \in -1..1, dr \in -1..1} \ {<<0, 0>>}
knight_attacks(s) ==
    {make_square(file_of(s) + d[1], rank_of(s) + d[2]) :
        d \in {e \in KnightDeltas : OnBoard(file_of(s) + e[1], rank_of(s) + e[2])}}
king_attacks(s) ==
    {make_square(file_of(s) + d[1], rank_of(s) + d[2]) :
        d \in {e \in KingDeltas : OnBoard(file_of(s) + e[1], rank_of(s) + e[2])}}
pawn_attacks(c, s) ==
    LET f == file_of(s)
        r == rank_of(s)
        nr == IF c = WHITE THEN r + 1 ELSE r - 1
    IN  {make_square(nf, nr) : nf \in {x \in {f - 1, f + 1} : OnBoard(x, nr)}}

\* one ray of a sliding piece: every square up to and including the first blocker
Ray(s, occ, df, dr) ==
    {make_square(file_of(s) + k * df, rank_of(s) + k * dr) :
        k \in {j \in 1..7 :
                 /\ OnBoard(file_of(s) + j * df, rank_of(s) + j * dr)
                 /\ \A i \in 1..(j - 1) :
                        make_square(file_of(s) + i * df, rank_of(s) + i * dr) \notin occ}}
rook_attacks_magic(s, occ) ==
    Ray(s, occ, 0, 1) \cup Ray(s, occ, 0, -1) \cup Ray(s, occ, 1, 0) \cup Ray(s, occ, -1, 0)
bishop_attacks_magic(s, occ) ==
    Ray(s, occ, 1, 1) \cup Ray(s, occ, -1, 1) \cup Ray(s, occ, 1, -1) \cup Ray(s, occ, -1, -1)
queen_attacks_magic(s, occ) == rook_attacks_magic(s, occ) \cup bishop_attacks_magic(s, occ)


(***************************************************************************)
(* Position (class Position)                                               *)
(***************************************************************************)
PieceIdx == {<<c, pt>> : c \in Colors, pt \in 0..6}

\* Zobrist hashing is modelled collision-free: the XOR of the keys of a
\* position is represented by the tuple of the things that are XORed in.
ZeroHash == [pcs |-> {}, stm |-> -1, castle |-> -1, ep |-> -2]

Toggle(S, T) == (S \ T) \cup (T \ S)

\* Outcomes of the undefined shift 1ULL << -1 and of the out-of-bounds
\* store board[-1] = v: "wrap" is the shift count taken modulo 64 and the
\* store landing in the upper half of _pieces[BLACK][KING], the member laid
\* out directly before board[]; "skip" is the statement having no effect.
UBOutcomes == {"wrap", "skip"}
BitOf(sq, u) ==
    IF sq \in Squares THEN {sq} ELSE IF u = "wrap" THEN {sq % 64} ELSE {}
HighWordSquares(v) == {32 + b : b \in {i \in 0..30 : (v \div (2 ^ i)) % 2 = 1}}
\* board[idx] = v on the pair (pieces, board)
BoardStore(st, idx, v, u) ==
    IF idx \in Squares THEN [st EXCEPT !.board[idx] = v]
    ELSE IF u = "wrap"
         THEN [st EXCEPT !.pieces[<<BLACK, KING>>] =
                   {x \in @ : x < 32} \cup HighWordSquares(v)]
         ELSE st

update_occupied(pieces) ==
    UNION {pieces[<<c, pt>>] : c \in Colors, pt \in PieceTypes}

castle_mask(crs) ==
    (IF crs[<<WHITE, 0>>] # -1 THEN 1 ELSE 0) + (IF crs[<<WHITE, 1>>] # -1 THEN 2 ELSE 0)
  + (IF crs[<<BLACK, 0>>] # -1 THEN 4 ELSE 0) + (IF crs[<<BLACK, 1>>] # -1 THEN 8 ELSE 0)

compute_hash(pieces, side, crs, ep_square) ==
    [pcs |-> {<<c, pt, sq>> \in Colors \X PieceTypes \X Squares : sq \in pieces[<<c, pt>>]},
     stm |-> side,
     castle |-> castle_mask(crs),
     ep |-> ep_square]

NoCastle == [i \in Colors \X {0, 1} |-> -1]

clear ==
    [pieces |-> [i \in PieceIdx |-> {}],
     board |-> [s \in Squares |-> 0],
     occupied |-> {},
     side |-> WHITE,
     fifty |-> 0,
     ply |-> 0,
     game_ply |-> 0,
     ep_square |-> -1,
     castle_rook_sq |-> NoCastle,
     chess960 |-> FALSE,
     hash |-> ZeroHash,
     history |-> <<ZeroHash>>]

BackRank == <<ROOK, KNIGHT, BISHOP, QUEEN, KING, BISHOP, KNIGHT, ROOK>>

init_startpos ==
    LET pieces == [i \in PieceIdx |->
                     IF i[2] = PAWN
                     THEN {make_square(f, IF i[1] = WHITE THEN 1 ELSE 6) : f \in 0..7}
                     ELSE {make_square(f, IF i[1] = WHITE THEN 0 ELSE 7) :
                               f \in {g \in 0..7 : BackRank[g + 1] = i[2]}}]
        board == [s \in Squares |->
                     CASE rank_of(s) = 1 -> piece_code(WHITE, PAWN)
                       [] rank_of(s) = 6 -> piece_code(BLACK, PAWN)
                       [] rank_of(s) = 0 -> piece_code(WHITE, BackRank[file_of(s) + 1])
                       [] rank_of(s) = 7 -> piece_code(BLACK, BackRank[file_of(s) + 1])
                       [] OTHER -> 0]
        crs == [i \in Colors \X {0, 1} |->
                     make_square(IF i[2] = 0 THEN 7 ELSE 0, IF i[1] = WHITE THEN 0 ELSE 7)]
        h == compute_hash(pieces, WHITE, crs, -1)
    IN  [clear EXCEPT !.pieces = pieces, !.board = board,
                      !.occupied = update_occupied(pieces),
                      !.castle_rook_sq = crs, !.game_ply = 1,
                      !.hash = h, !.history = <<h>>]

castling_rights(p) ==
    LET enc(sq) == (sq + 1) % 128
    IN  enc(p.castle_rook_sq[<<WHITE, 0>>])
      + enc(p.castle_rook_sq[<<WHITE, 1>>]) * 128
      + enc(p.castle_rook_sq[<<BLACK, 0>>]) * 16384
      + enc(p.castle_rook_sq[<<BLACK, 1>>]) * 2097152
dec_slot(packed, shift) == ((packed \div (2 ^ shift)) % 128) - 1
restore_castling_rights(packed) ==
    [i \in Colors \X {0, 1} |-> dec_slot(packed, 14 * i[1] + 7 * i[2])]

attacks_to(p, s, occ) ==
    LET P(c, pt) == p.pieces[<<c, pt>>]
        bishops == P(WHITE, BISHOP) \cup P(BLACK, BISHOP) \cup P(WHITE, QUEEN) \cup P(BLACK, QUEEN)
        rooks == P(WHITE, ROOK) \cup P(BLACK, ROOK) \cup P(WHITE, QUEEN) \cup P(BLACK, QUEEN)
    IN  (pawn_attacks(BLACK, s) \cap P(WHITE, PAWN))
        \cup (pawn_attacks(WHITE, s) \cap P(BLACK, PAWN))
        \cup (knight_attacks(s) \cap (P(WHITE, KNIGHT) \cup P(BLACK, KNIGHT)))
        \cup (bishop_attacks_magic(s, occ) \cap bishops)
        \cup (rook_attacks_magic(s, occ) \cap rooks)
        \cup (king_attacks(s) \cap (P(WHITE, KING) \cup P(BLACK, KING)))
ColorPieces(p, c) == UNION {p.pieces[<<c, pt>>] : pt \in PieceTypes}
is_check(p) ==
    IF p.pieces[<<p.side, KING>>] = {} THEN FALSE
    ELSE (attacks_to(p, lsb(p.pieces[<<p.side, KING>>]), p.occupied)
              \ ColorPieces(p, p.side)) # {}
is_attacked(p, s, by) == (attacks_to(p, s, p.occupied) \cap ColorPieces(p, by)) # {}
mover_in_check(p) ==
    LET prev == 1 - p.side
    IN  IF p.pieces[<<prev, KING>>] = {} THEN FALSE
        ELSE is_attacked(p, lsb(p.pieces[<<prev, KING>>]), p.side)


(***************************************************************************)
(* Position::set_fen.  A FEN is given as its whitespace-separated fields;  *)
(* board_str, castle and ep are sequences of one-character strings.        *)
(***************************************************************************)
UpperChars == <<"A", "B", "C", "D", "E", "F", "G", "H", "K", "N", "P", "Q", "R">>
LowerChars == <<"a", "b", "c", "d", "e", "f", "g", "h", "k", "n", "p", "q", "r">>
DigitChars == <<"1", "2", "3", "4", "5", "6", "7", "8">>
IndexIn(seq, c) == IF \E i \in 1..Len(seq) : seq[i] = c
                   THEN CHOOSE i \in 1..Len(seq) : seq[i] = c ELSE 0
isupper(c) == IndexIn(UpperChars, c) # 0
tolower(c) == IF isupper(c) THEN LowerChars[IndexIn(UpperChars, c)] ELSE c
\* lch - 'a' for the letters a..h; any other character is outside 0..7
file_of_char(c) == IF IndexIn(LowerChars, c) \in 1..8 THEN IndexIn(LowerChars, c) - 1 ELSE -1
\* c - '1' for the digits 1..8
rank_of_char(c) == IndexIn(DigitChars, c) - 1
piece_of_char(c) ==
    CASE tolower(c) = "p" -> PAWN
      [] tolower(c) = "n" -> KNIGHT
      [] tolower(c) = "b" -> BISHOP
      [] tolower(c) = "r" -> ROOK
      [] tolower(c) = "q" -> QUEEN
      [] tolower(c) = "k" -> KING
      [] OTHER -> NO_PIECE

\* the loop over board_str; st = [pieces, board, sq]
RECURSIVE fen_place(_, _)
fen_place(str, st) ==
    IF str = <<>> THEN st
    ELSE LET c == Head(str)
             col == IF isupper(c) THEN WHITE ELSE BLACK
             pt == piece_of_char(c)
             nxt == IF c = "/" THEN [st EXCEPT !.sq = @ - 16]
                    ELSE IF IndexIn(DigitChars, c) # 0
                         THEN [st EXCEPT !.sq = @ + IndexIn(DigitChars, c)]
                    ELSE IF pt # NO_PIECE /\ st.sq >= 0 /\ st.sq < 64
                         THEN [pieces |-> [st.pieces EXCEPT ![<<col, pt>>] = @ \cup {st.sq}],
                               board |-> [st.board EXCEPT ![st.sq] = piece_code(col, pt)],
                               sq |-> st.sq + 1]
                    ELSE st
         IN  fen_place(Tail(str), nxt)

\* first rook file found scanning from file f in direction step on the back rank
RECURSIVE first_rook_file(_, _, _, _)
first_rook_file(rooks, rank, f, step) ==
    IF f < 0 \/ f >= 8 THEN -1
    ELSE IF make_square(f, rank) \in rooks THEN f
    ELSE first_rook_file(rooks, rank, f + step, step)

\* the loop over the castling field; crs = castle_rook_sq
RECURSIVE fen_castle(_, _, _)
fen_castle(str, pieces, crs) ==
    IF str = <<>> THEN crs
    ELSE LET ch == Head(str)
             col == IF isupper(ch) THEN WHITE ELSE BLACK
             rank == IF col = WHITE THEN 0 ELSE 7
             lch == tolower(ch)
             ksq == lsb(pieces[<<col, KING>>])
             file == IF lch = "k"
                     THEN first_rook_file(pieces[<<col, ROOK>>], rank, file_of(ksq) + 1, 1)
                     ELSE IF lch = "q"
                     THEN first_rook_file(pieces[<<col, ROOK>>], rank, file_of(ksq) - 1, -1)
                     ELSE file_of_char(lch)
             rook_sq == make_square(file, rank)
             side_idx == IF file > file_of(ksq) THEN 0 ELSE 1
             nxt == IF file < 0 \/ file > 7 THEN crs
                    ELSE IF rook_sq \notin pieces[<<col, ROOK>>] THEN crs
                    ELSE [crs EXCEPT ![<<col, side_idx>>] = rook_sq]
         IN  fen_castle(Tail(str), pieces, nxt)

set_fen(fen) ==
    LET placed == fen_place(fen.board_str,
                            [pieces |-> clear.pieces, board |-> clear.board, sq |-> 56])
        side == IF fen.side_str = "w" THEN WHITE ELSE BLACK
        crs == IF fen.castle # <<"-">> THEN fen_castle(fen.castle, placed.pieces, NoCastle)
               ELSE NoCastle
        chess960 == \/ crs[<<WHITE, 0>>] # make_square(7, 0)
                    \/ crs[<<WHITE, 1>>] # make_square(0, 0)
                    \/ crs[<<BLACK, 0>>] # make_square(7, 7)
                    \/ crs[<<BLACK, 1>>] # make_square(0, 7)
        ep_square == IF fen.ep # <<"-">>
                     THEN make_square(file_of_char(fen.ep[1]), rank_of_char(fen.ep[2]))
                     ELSE -1
        h == compute_hash(placed.pieces, side, crs, ep_square)
    IN  [pieces |-> placed.pieces,
         board |-> placed.board,
         occupied |-> update_occupied(placed.pieces),
         side |-> side,
         fifty |-> fen.hmvc,
         ply |-> 0,
         game_ply |-> fen.fmvn,
         ep_square |-> ep_square,
         castle_rook_sq |-> crs,
         chess960 |-> chess960,
         hash |-> h,
         history |-> <<h>>]


(***************************************************************************)
(* Position::make_move / undo_null_move / undo_move                        *)
(* u resolves the undefined behaviour of a castling move whose rook slot   *)
(* is -1 (see UBOutcomes); it has no influence on any other move.          *)
(***************************************************************************)
PXor(st, c, pt, bits) == [st EXCEPT !.pieces[<<c, pt>>] = Toggle(@, bits)]
POr(st, c, pt, bits) == [st EXCEPT !.pieces[<<c, pt>>] = @ \cup bits]

make_null_move(p) ==
    LET side == 1 - p.side
    IN  [p EXCEPT !.side = side,
                  !.ply = @ + 1,
                  !.game_ply = IF side = WHITE THEN @ + 1 ELSE @,
                  !.history = Append(@, p.hash),
                  !.hash = compute_hash(p.pieces, side, p.castle_rook_sq, p.ep_square)]

\* side of a castling move as make_move, undo_move and move_to_uci derive it
castle_side_idx(from, to) == IF to > from THEN 0 ELSE 1

make_move(p, m, u) ==
    IF m = NULL_MOVE THEN make_null_move(p)
    ELSE
    LET from == from_sq(m)
        to == to_sq(m)
        pc == p.board[from]
        pt == pc % 8
        us == p.side
        them == 1 - us
        captured0 == p.board[to]
        s1 == [PXor([pieces |-> p.pieces, board |-> p.board], us, pt, {from})
                  EXCEPT !.board[from] = 0]
        \* castling branch
        side_idx == castle_side_idx(from, to)
        rook_sq == p.castle_rook_sq[<<us, side_idx>>]
        rook_dest == make_square(IF side_idx = 0 THEN 5 ELSE 3, IF us = WHITE THEN 0 ELSE 7)
        sc1 == POr(PXor(s1, us, ROOK, BitOf(rook_sq, u)), us, ROOK, {rook_dest})
        sc2 == [BoardStore(sc1, rook_sq, 0, u) EXCEPT !.board[rook_dest] = piece_code(us, ROOK)]
        \* en-passant branch
        ep_cap == to + (IF us = WHITE THEN -8 ELSE 8)
        ep_pc == p.board[ep_cap]
        se == IF ep_pc # 0
              THEN [PXor(s1, them, ep_pc % 8, {ep_cap}) EXCEPT !.board[ep_cap] = 0]
              ELSE s1
        s2 == IF is_castling(m) THEN sc2 ELSE IF is_en_passant(m) THEN se ELSE s1
        crs1 == IF is_castling(m) THEN [p.castle_rook_sq EXCEPT ![<<us, side_idx>>] = -1]
                ELSE p.castle_rook_sq
        captured == IF ~is_castling(m) /\ is_en_passant(m) THEN ep_pc ELSE captured0
        s3 == [POr(s2, us, pt, {to}) EXCEPT !.board[to] = pc]
        s4 == IF captured # 0 /\ ~is_en_passant(m) /\ ~is_castling(m)
              THEN PXor(s3, them, captured % 8, {to}) ELSE s3
        prom == promotion_type(m)
        s5 == IF prom # NO_PIECE
              THEN [POr(PXor(s4, us, pt, {to}), us, prom, {to})
                       EXCEPT !.board[to] = piece_code(us, prom)]
              ELSE s4
        crs2 == IF pt = KING
                THEN [crs1 EXCEPT ![<<us, 0>>] = -1, ![<<us, 1>>] = -1] ELSE crs1
        \* for (s = 0; s < 2; ++s) { from == castle_rook_sq[us][s]; from == castle_rook_sq[them][s] }
        crs3 == [i \in Colors \X {0, 1} |-> IF from = crs2[i] THEN -1 ELSE crs2[i]]
        ep_square == IF pt = PAWN /\ Abs(to - from) = 16
                     THEN (IF us = WHITE THEN from + 8 ELSE from - 8) ELSE -1
        fifty == IF captured # 0 \/ pt = PAWN THEN 0 ELSE p.fifty + 1
    IN  [pieces |-> s5.pieces,
         board |-> s5.board,
         occupied |-> update_occupied(s5.pieces),
         side |-> them,
         fifty |-> fifty,
         ply |-> p.ply + 1,
         game_ply |-> IF them = WHITE THEN p.game_ply + 1 ELSE p.game_ply,
         ep_square |-> ep_square,
         castle_rook_sq |-> crs3,
         chess960 |-> p.chess960,
         hash |-> compute_hash(s5.pieces, them, crs3, ep_square),
         history |-> Append(p.history, p.hash)]

undo_null_move(p) ==
    LET side == 1 - p.side
    IN  [p EXCEPT !.side = side,
                  !.ply = @ - 1,
                  !.game_ply = IF side = BLACK THEN @ - 1 ELSE @,
                  !.history = SubSeq(@, 1, Len(@) - 1),
                  !.hash = compute_hash(p.pieces, side, p.castle_rook_sq, p.ep_square)]

undo_move(p, m, captured, old_castle, old_ep, old_fifty, u) ==
    IF m = NULL_MOVE THEN undo_null_move(p)
    ELSE
    LET side == 1 - p.side
        from == from_sq(m)
        to == to_sq(m)
        pc == p.board[to]
        pt == pc % 8
        us == side
        them == 1 - us
        s1 == [PXor([pieces |-> p.pieces, board |-> p.board], us, pt, {to})
                  EXCEPT !.board[to] = captured]
        s2 == [POr(s1, us, pt, {from}) EXCEPT !.board[from] = piece_code(us, pt)]
        s3 == IF captured # 0 /\ ~is_en_passant(m) /\ ~is_castling(m)
              THEN POr(s2, them, captured % 8, {to}) ELSE s2
        \* castling branch
        side_idx == castle_side_idx(from, to)
        orig_rook_sq == dec_slot(old_castle, 14 * us + 7 * side_idx)
        rook_dest == make_square(IF side_idx = 0 THEN 5 ELSE 3, IF us = WHITE THEN 0 ELSE 7)
        sc1 == POr(PXor(s3, us, ROOK, {rook_dest}), us, ROOK, BitOf(orig_rook_sq, u))
        sc2 == BoardStore([sc1 EXCEPT !.board[rook_dest] = 0],
                          orig_rook_sq, piece_code(us, ROOK), u)
        \* en-passant branch
        ep_cap == to + (IF us = WHITE THEN -8 ELSE 8)
        se == [POr(s3, them, PAWN, {ep_cap}) EXCEPT !.board[ep_cap] = piece_code(them, PAWN)]
        s4 == IF is_castling(m) THEN sc2 ELSE IF is_en_passant(m) THEN se ELSE s3
        prom == promotion_type(m)
        s5 == IF prom # NO_PIECE
              THEN [POr(PXor(s4, us, prom, {from}), us, PAWN, {from})
                       EXCEPT !.board[from] = piece_code(us, PAWN)]
              ELSE s4
        crs == restore_castling_rights(old_castle)
    IN  [pieces |-> s5.pieces,
         board |-> s5.board,
         occupied |-> update_occupied(s5.pieces),
         side |-> side,
         fifty |-> old_fifty,
         ply |-> p.ply - 1,
         game_ply |-> IF side = BLACK THEN p.game_ply - 1 ELSE p.game_ply,
         ep_square |-> old_ep,
         castle_rook_sq |-> crs,
         chess960 |-> p.chess960,
         hash |-> compute_hash(s5.pieces, side, crs, old_ep),
         history |-> SubSeq(p.history, 1, Len(p.history) - 1)]


(***************************************************************************)
(* generate_moves: the pseudo-legal moves in the order the code emits them *)
(***************************************************************************)
MovesTo(from, targets) == [i \in 1..Cardinality(targets) |-> make_move_enc(from, SortedSeq(targets)[i])]

their_pieces_no_king(p) == UNION {p.pieces[<<1 - p.side, pt>>] : pt \in PAWN..QUEEN}

\* knights, bishops, rooks, queens and the king share one shape
piece_moves(p, from, attacks, captures_only) ==
    LET caps == attacks \cap their_pieces_no_king(p)
        noncaps == attacks \ p.occupied
    IN  IF captures_only THEN MovesTo(from, caps)
        ELSE MovesTo(from, caps) \o MovesTo(from, noncaps)

attacks_of(p, pt, from) ==
    CASE pt = KNIGHT -> knight_attacks(from)
      [] pt = BISHOP -> bishop_attacks_magic(from, p.occupied)
      [] pt = ROOK -> rook_attacks_magic(from, p.occupied)
      [] pt = QUEEN -> queen_attacks_magic(from, p.occupied)
      [] pt = KING -> king_attacks(from)

type_moves(p, pt, captures_only) ==
    LET froms == IF pt = KING /\ p.pieces[<<p.side, KING>>] # {}
                 THEN <<lsb(p.pieces[<<p.side, KING>>])>>
                 ELSE SortedSeq(p.pieces[<<p.side, pt>>])
    IN  Flatten([i \in 1..Len(froms) |->
                    piece_moves(p, froms[i], attacks_of(p, pt, froms[i]), captures_only)])

Promotions(from, to) ==
    <<make_promotion(from, to, QUEEN), make_promotion(from, to, ROOK),
      make_promotion(from, to, BISHOP), make_promotion(from, to, KNIGHT)>>

\* pawn_moves with the pushes generated in both modes
pawn_moves_with_pushes(p, from, captures_only) ==
    LET us == p.side
        forward == IF us = WHITE THEN 8 ELSE -8
        promo_rank == IF us = WHITE THEN {sq \in Squares : rank_of(sq) = 7}
                      ELSE {sq \in Squares : rank_of(sq) = 0}
        to == from + forward
        to2 == from + 2 * forward
        pushes == IF to >= 0 /\ to < 64 /\ p.board[to] = 0
                  THEN IF to \in promo_rank THEN Promotions(from, to)
                       ELSE <<make_move_enc(from, to)>>
                            \o (IF ((us = WHITE /\ rank_of(from) = 1) \/ (us = BLACK /\ rank_of(from) = 6))
                                   /\ p.board[to2] = 0
                                THEN <<make_move_enc(from, to2)>> ELSE <<>>)
                  ELSE <<>>
        attacks == SortedSeq(pawn_attacks(us, from) \cap their_pieces_no_king(p))
        caps == Flatten([i \in 1..Len(attacks) |->
                            IF attacks[i] \in promo_rank THEN Promotions(from, attacks[i])
                            ELSE <<make_move_enc(from, attacks[i])>>])
        ep == IF p.ep_square # -1 /\ p.ep_square \in pawn_attacks(us, from)
              THEN <<with_flag(make_move_enc(from, p.ep_square), ENPASSANT_FLAG)>> ELSE <<>>
    IN  pushes \o caps \o ep

pawn_moves(p, from, captures_only) ==
    LET us == p.side
        forward == IF us = WHITE THEN 8 ELSE -8
        promo_rank == IF us = WHITE THEN {sq \in Squares : rank_of(sq) = 7}
                      ELSE {sq \in Squares : rank_of(sq) = 0}
        to == from + forward
        to2 == from + 2 * forward
        pushes == IF ~captures_only /\ to >= 0 /\ to < 64 /\ p.board[to] = 0
                  THEN IF to \in promo_rank THEN Promotions(from, to)
                       ELSE <<make_move_enc(from, to)>>
                            \o (IF ((us = WHITE /\ rank_of(from) = 1) \/ (us = BLACK /\ rank_of(from) = 6))
                                   /\ p.board[to2] = 0
                                THEN <<make_move_enc(from, to2)>> ELSE <<>>)
                  ELSE <<>>
        attacks == SortedSeq(pawn_attacks(us, from) \cap their_pieces_no_king(p))
        caps == Flatten([i \in 1..Len(attacks) |->
                            IF attacks[i] \in promo_rank THEN Promotions(from, attacks[i])
                            ELSE <<make_move_enc(from, attacks[i])>>])
        ep == IF p.ep_square # -1 /\ p.ep_square \in pawn_attacks(us, from)
              THEN <<with_flag(make_move_enc(from, p.ep_square), ENPASSANT_FLAG)>> ELSE <<>>
    IN  pushes \o caps \o ep

\* squares s = a + step, a + 2 step, ... strictly before b
Between(a, b) ==
    IF a < b THEN (a + 1)..(b - 1) ELSE (b + 1)..(a - 1)

castle_ok(p, side_idx) ==
    LET us == p.side
        them == 1 - us
        rook_sq == p.castle_rook_sq[<<us, side_idx>>]
        ksq == lsb(p.pieces[<<us, KING>>])
        rank == IF us = WHITE THEN 0 ELSE 7
        king_dest == make_square(IF side_idx = 0 THEN 6 ELSE 2, rank)
        rook_dest == make_square(IF side_idx = 0 THEN 5 ELSE 3, rank)
        rook_on_correct_side == IF side_idx = 0 THEN rook_sq > ksq ELSE rook_sq < ksq
        king_path == Between(ksq, king_dest) \cup {king_dest}
        king_ok == \/ king_dest = ksq
                   \/ /\ \A sq \in king_path : p.board[sq] = 0 \/ sq = rook_sq
                      /\ \A sq \in king_path : ~is_attacked(p, sq, them)
        rook_ok == \/ rook_dest = rook_sq
                   \/ \A sq \in Between(rook_sq, rook_dest) : sq = ksq \/ p.board[sq] = 0
    IN  /\ rook_sq # -1
        /\ rook_sq \in p.pieces[<<us, ROOK>>]
        /\ rook_on_correct_side
        /\ king_ok
        /\ rook_ok
        /\ ~is_attacked(p, ksq, them)

castle_moves(p) ==
    IF ~is_check(p) /\ p.pieces[<<p.side, KING>>] # {}
    THEN LET ksq == lsb(p.pieces[<<p.side, KING>>])
             rank == IF p.side = WHITE THEN 0 ELSE 7
         IN  Flatten([i \in 1..2 |->
                        IF castle_ok(p, i - 1)
                        THEN <<with_flag(make_move_enc(ksq, make_square(IF i = 1 THEN 6 ELSE 2, rank)),
                                         CASTLE_FLAG)>>
                        ELSE <<>>])
    ELSE <<>>

generate_moves(p, captures_only) ==
    LET pawns == SortedSeq(p.pieces[<<p.side, PAWN>>])
    IN  type_moves(p, KNIGHT, captures_only)
        \o type_moves(p, BISHOP, captures_only)
        \o type_moves(p, ROOK, captures_only)
        \o type_moves(p, QUEEN, captures_only)
        \o type_moves(p, KING, captures_only)
        \o Flatten([i \in 1..Len(pawns) |-> pawn_moves(p, pawns[i], captures_only)])
        \o (IF captures_only THEN <<>> ELSE castle_moves(p))


(***************************************************************************)
(* Positions the model starts from: init_startpos and set_fen on standard  *)
(* and Chess960 set-ups (castling, en passant, promotion).                 *)
(***************************************************************************)
Fen(board_str, side_str, castle, ep) ==
    [board_str |-> board_str, side_str |-> side_str, castle |-> castle, ep |-> ep,
     hmvc |-> 0, fmvn |-> 1]

\* r3k2r/8/8/8/8/8/8/R3K2R w KQkq - 0 1
FenCastleStd ==
    Fen(<<"r","3","k","2","r","/","8","/","8","/","8","/","8","/","8","/","8","/","R","3","K","2","R">>,
        "w", <<"K","Q","k","q">>, <<"-">>)
\* 4k3/8/8/8/8/8/8/5K1R w K - 0 1   (Chess960: king f1, rook h1)
FenKingF ==
    Fen(<<"4","k","3","/","8","/","8","/","8","/","8","/","8","/","8","/","5","K","1","R">>,
        "w", <<"K">>, <<"-">>)
\* 4k3/8/8/8/8/8/8/R1KN4 w Q - 0 1  (Chess960: king c1, rook a1, knight d1)
FenKingC ==
    Fen(<<"4","k","3","/","8","/","8","/","8","/","8","/","8","/","8","/","R","1","K","N","4">>,
        "w", <<"Q">>, <<"-">>)
\* 4k3/8/8/8/8/8/8/R5KR w HA - 0 1  (Chess960 Shredder-FEN: king g1, rooks a1 and h1)
FenKingG ==
    Fen(<<"4","k","3","/","8","/","8","/","8","/","8","/","8","/","8","/","R","5","K","R">>,
        "w", <<"H","A">>, <<"-">>)
\* 4k3/8/8/8/8/8/8/6KR w K - 0 1    (Chess960: king g1, rook h1, no queenside right)
FenKingGOnly ==
    Fen(<<"4","k","3","/","8","/","8","/","8","/","8","/","8","/","8","/","6","K","R">>,
        "w", <<"K">>, <<"-">>)
\* 1r2k3/P7/8/3pP3/8/8/8/4K3 w - d6 0 1  (en passant, promotion, promotion capture)
FenPawns ==
    Fen(<<"1","r","2","k","3","/","P","7","/","8","/","3","p","P","3","/","8","/","8","/","8","/","4","K","3">>,
        "w", <<"-">>, <<"d","6">>)
\* 4k3/8/8/8/4p3/8/3P4/4K3 w - - 0 1   (double push giving an en-passant square)
FenDouble ==
    Fen(<<"4","k","3","/","8","/","8","/","8","/","4","p","3","/","8","/","3","P","4","/","4","K","3">>,
        "w", <<"-">>, <<"-">>)

Fens == {FenCastleStd, FenKingF, FenKingC, FenKingG, FenKingGOnly, FenPawns, FenDouble}
StartPositions == {init_startpos} \cup {set_fen(f) : f \in Fens}


(***************************************************************************)
(* State.  Position: the UCI object's pos with the undo records perft_r    *)
(* keeps on its stack.  Search: the options, the UCI thread, the shared    *)
(* atomics and the worker threads.  Walk: one worker's call stack and node *)
(* counter.  Loop: the command loop of UCI::run.  Units: the               *)
(* transposition table with the last call made on it; the time manager    *)
(* with the last go command and the last call of stop_early; the option   *)
(* UCI_Chess960 with the last move written by move_to_uci; the info lines  *)
(* written by output_info; the node whose move loop negamax is running.    *)
(***************************************************************************)
VARIABLES pos, ustack, posOp, undoSeen, kingMoved,
          thread_count, multi_pv, legal_root,
          script, nSent, nRead, uciPc, search_active, pondering, pondering_active,
          root_moves, tm, out, goLog, stopSentRunning, stopOutcome,
          stop_search, shared_best_move, shared_best_score, depth_done_count,
          depth_continue, depth_ack_count, node_limit, active_splits,
          workers,
          wstack, wnodes, wextra, wret, wpc,
          loopPc, linesRead, lastLine, last_pv,
          tt, ttOp,
          time_mgr, lastGo, tmPoll,
          uci_chess960, moveText,
          infoOut,
          mloop

posVars == <<pos, ustack, posOp, undoSeen, kingMoved>>
cfgVars == <<thread_count, multi_pv, legal_root>>
uciVars == <<script, nSent, nRead, uciPc, search_active, pondering, pondering_active,
             root_moves, tm, out, goLog, stopSentRunning, stopOutcome>>
sharedVars == <<stop_search, shared_best_move, shared_best_score, depth_done_count,
                depth_continue, depth_ack_count, node_limit, active_splits>>
searchVars == <<cfgVars, uciVars, sharedVars, workers>>
walkVars == <<wstack, wnodes, wextra, wret, wpc>>
loopVars == <<loopPc, linesRead, lastLine, last_pv>>
ttVars == <<tt, ttOp>>
timeVars == <<time_mgr, lastGo, tmPoll>>
notationVars == <<uci_chess960, moveText>>
infoVars == <<infoOut>>
nodeVars == <<mloop>>
unitVars == <<ttVars, timeVars, notationVars, infoVars, nodeVars>>
vars == <<posVars, searchVars, walkVars, loopVars, unitVars>>

\* the parts of the state a specification does not use stay as constructed
PosIdle ==
    /\ pos = init_startpos
    /\ ustack = <<>>
    /\ posOp = "init"
    /\ undoSeen = FALSE
    /\ kingMoved = [c \in Colors |-> FALSE]
WalkIdle ==
    /\ wstack = <<>> /\ wnodes = 0 /\ wextra = 0 /\ wret = FALSE /\ wpc = "idle"
NoLine == [cmd |-> "", name |-> "", value |-> <<>>]
LoopIdle ==
    /\ loopPc = "idle" /\ linesRead = 0 /\ lastLine = NoLine /\ last_pv = <<>>

(***************************************************************************)
(* make_move / undo_move as perft_r drives them                            *)
(***************************************************************************)
\* number of make_move calls on the stack
MaxPly == 2

\* what perft_r saves immediately before make_move (kingMoved is a history
\* variable of the model: whether the king of a colour has made a move)
UndoRecord(p, m) ==
    [m |-> m, captured |-> p.board[to_sq(m)], old_castle |-> castling_rights(p),
     old_ep |-> p.ep_square, old_fifty |-> p.fifty, before |-> p, moved |-> kingMoved]

\* p.make_move(mvs[i]) in perft_r: every generated move is made; the walk
\* goes on only from positions in which the side that moved is not in check
PosMake ==
    /\ Len(ustack) < MaxPly
    /\ ~mover_in_check(pos)
    /\ \E m \in SeqToSet(generate_moves(pos, FALSE)), u \in UBOutcomes :
          /\ pos' = make_move(pos, m, u)
          /\ ustack' = Append(ustack, UndoRecord(pos, m))
          /\ kingMoved' = [kingMoved EXCEPT ![pos.side] = @ \/ piece_type(pos.board[from_sq(m)]) = KING]
    /\ posOp' = "make"
    /\ UNCHANGED <<undoSeen, searchVars, walkVars, loopVars, unitVars>>

\* p.undo_move(mvs[i], cap, old_cr, old_ep, old_50) in perft_r
PosUndo ==
    /\ ustack # <<>>
    /\ LET r == ustack[Len(ustack)]
       IN  /\ \E u \in UBOutcomes :
                pos' = undo_move(pos, r.m, r.captured, r.old_castle, r.old_ep, r.old_fifty, u)
           /\ kingMoved' = r.moved
    /\ ustack' = SubSeq(ustack, 1, Len(ustack) - 1)
    /\ posOp' = "undo"
    /\ undoSeen' = TRUE
    /\ UNCHANGED <<searchVars, walkVars, loopVars, unitVars>>

(***************************************************************************)
(* make_move / undo_move as the search drives them on one line: moves,     *)
(* null moves (negamax's null-move pruning) and their undoing, with        *)
(* is_repetition asked in every position of the line                       *)
(***************************************************************************)
\* number of make_move calls on the line
MaxLine == 8
\* largest count is_repetition is asked for (the engine asks for 2)
MaxCount == 2

\* k7/8/8/8/8/8/8/K7 w - - 0 1
FenKings ==
    Fen(<<"k","7","/","8","/","8","/","8","/","8","/","8","/","8","/","K","7">>,
        "w", <<"-">>, <<"-">>)
LinePositions == {init_startpos, set_fen(FenKings), set_fen(FenPawns), set_fen(FenDouble)}

\* the moves of a line stay on a1 b1 a8 b8 (king shuffles) and d2 d4 (the
\* double push that sets an en-passant square)
LineSquares == {make_square(0, 0), make_square(1, 0), make_square(0, 7), make_square(1, 7),
                make_square(3, 1), make_square(3, 3)}
LineMoves(p) ==
    {m \in SeqToSet(generate_moves(p, FALSE)) :
        from_sq(m) \in LineSquares /\ to_sq(m) \in LineSquares}

\* the loop of is_repetition stepping over every entry of history
is_repetition_every_ply(p, count) ==
    LET RECURSIVE loop(_, _)
        loop(j, n) ==
            IF j >= 0 /\ n < count
            THEN LET n2 == IF p.history[j + 1] = p.hash THEN n + 1 ELSE n
                 IN  IF n2 >= count THEN TRUE ELSE loop(j - 1, n2)
            ELSE FALSE
    IN  loop(Len(p.history) - 2, 0)

is_repetition(p, count) ==
    LET RECURSIVE loop(_, _)
        loop(j, n) ==
            IF j >= 0 /\ n < count
            THEN LET n2 == IF p.history[j + 1] = p.hash THEN n + 1 ELSE n
                 IN  IF n2 >= count THEN TRUE ELSE loop(j - 2, n2)
            ELSE FALSE
    IN  loop(Len(p.history) - 2, 0)

\* pos.make_move(m) on a move of the line
LineMake ==
    /\ Len(ustack) < MaxLine
    /\ \E m \in LineMoves(pos), u \in UBOutcomes :
          /\ pos' = make_move(pos, m, u)
          /\ ustack' = Append(ustack, UndoRecord(pos, m))
          /\ kingMoved' = [kingMoved EXCEPT ![pos.side] = @ \/ piece_type(pos.board[from_sq(m)]) = KING]
    /\ posOp' = "make"
    /\ UNCHANGED <<undoSeen, searchVars, walkVars, loopVars, unitVars>>

\* pos.make_move(NULL_MOVE)
LineNull ==
    /\ Len(ustack) < MaxLine
    /\ pos' = make_move(pos, NULL_MOVE, "skip")
    /\ ustack' = Append(ustack, [m |-> NULL_MOVE, captured |-> 0,
                                 old_castle |-> castling_rights(pos), old_ep |-> pos.ep_square,
                                 old_fifty |-> pos.fifty, before |-> pos, moved |-> kingMoved])
    /\ posOp' = "null"
    /\ UNCHANGED <<undoSeen, kingMoved, searchVars, walkVars, loopVars, unitVars>>

(***************************************************************************)
(* generate_moves asked in both modes in the start positions and in the    *)
(* positions one make_move away from them                                  *)
(***************************************************************************)
MaxGenPly == 1

\* pos.make_move(m) on any generated move
GenMake ==
    /\ Len(ustack) < MaxGenPly
    /\ ~mover_in_check(pos)
    /\ \E m \in SeqToSet(generate_moves(pos, FALSE)), u \in UBOutcomes :
          /\ pos' = make_move(pos, m, u)
          /\ ustack' = Append(ustack, UndoRecord(pos, m))
          /\ kingMoved' = [kingMoved EXCEPT ![pos.side] = @ \/ piece_type(pos.board[from_sq(m)]) = KING]
    /\ posOp' = "make"
    /\ UNCHANGED <<undoSeen, searchVars, walkVars, loopVars, unitVars>>

(***************************************************************************)
(* Search: UCI::go / stop / ponderhit on the UCI thread, and               *)
(* SearchThread::search on the worker threads.  The game tree below the    *)
(* root is not modelled: one pass over a worker's root moves yields any    *)
(* of its moves with any score of Scores, may hit the node or time limit,  *)
(* and may open split points.                                              *)
(***************************************************************************)
INF == 32001

\* thread_count ranges over 1..MaxThreads, multi_pv over 1..MaxMultiPV
MaxThreads == 2
MaxMultiPV == 2
\* the depth argument of the go commands of SearchScripts
GoDepth == 2
\* scores a pass over the root moves can return: 0..MaxScore
MaxScore == 0
\* aspiration re-searches of one depth (the window only widens, to +-INF)
MaxRetry == 1
\* split points one pass over the root moves opens (one inside the other or
\* one after the other when there are several)
MaxSplits == 1
\* negamax opens a split point at depth >= 6 with more than 5 moves
SplitMinDepth == 6
SplitMinMoves == 5
\* max_nodes of a go nodes command
NodeBudget == 1

ThreadIds == 0..(MaxThreads - 1)
Scores == 0..MaxScore

\* k7/8/P7/8/8/3n3p/7P/6KR w - - 0 1  (two legal moves: a6a7 and g1f1)
FenTwoMoves ==
    Fen(<<"k","7","/","8","/","P","7","/","8","/","8","/","3","n","3","p","/","7","P","/","6","K","R">>,
        "w", <<"-">>, <<"-">>)
\* k7/8/8/8/8/3n3p/7P/6KR w - - 0 1  (one legal move: g1f1)
FenOneMove ==
    Fen(<<"k","7","/","8","/","8","/","8","/","8","/","3","n","3","p","/","7","P","/","6","K","R">>,
        "w", <<"-">>, <<"-">>)
\* k7/8/8/8/8/3n3p/3n3P/6KR w K - 0 1  (the only legal move is castling, king staying on g1)
FenCastleOnly ==
    Fen(<<"k","7","/","8","/","8","/","8","/","8","/","3","n","3","p","/","3","n","3","P","/","6","K","R">>,
        "w", <<"K">>, <<"-">>)
\* 7k/8/8/8/8/8/5PPP/r5K1 w - - 0 1  (White is checkmated)
FenMate ==
    Fen(<<"7","k","/","8","/","8","/","8","/","8","/","8","/","5","P","P","P","/","r","5","K","1">>,
        "w", <<"-">>, <<"-">>)
\* k7/8/8/8/8/8/5q2/7K w - - 0 1  (White is stalemated)
FenStalemate ==
    Fen(<<"k","7","/","8","/","8","/","8","/","8","/","8","/","5","q","2","/","7","K">>,
        "w", <<"-">>, <<"-">>)
\* xyz w - - 0 1  (no placement character is recognised: the board stays empty)
FenMalformed == Fen(<<"x","y","z">>, "w", <<"-">>, <<"-">>)
NoMovePositions == {set_fen(FenMate), set_fen(FenStalemate), set_fen(FenMalformed)}
RootPositions ==
    {set_fen(FenTwoMoves), set_fen(FenOneMove), set_fen(FenCastleOnly)} \cup NoMovePositions

\* the legal moves of a position, as perft counts them
LegalMoves(p) ==
    {m \in SeqToSet(generate_moves(p, FALSE)) :
        \A u \in UBOutcomes : ~mover_in_check(make_move(p, m, u))}

\* the root move filter without its test of mover_in_check
filtered_root_moves_unchecked(p, u) ==
    LET keep(m) == ~(p.board[to_sq(m)] # 0 /\ piece_type(p.board[to_sq(m)]) = KING)
    IN  SelectSeq(generate_moves(p, FALSE), keep)

\* the root move filter of UCI::go
filtered_root_moves(p, u) ==
    LET keep(m) == /\ ~(p.board[to_sq(m)] # 0 /\ piece_type(p.board[to_sq(m)]) = KING)
                   /\ ~mover_in_check(make_move(p, m, u))
    IN  SelectSeq(generate_moves(p, FALSE), keep)

\* commands read by UCI::run
GoCmd(limit, ponder, depth) == [cmd |-> "go", limit |-> limit, ponder |-> ponder, depth |-> depth]
StopCmd == [cmd |-> "stop", limit |-> "none", ponder |-> FALSE, depth |-> 0]
PonderhitCmd == [cmd |-> "ponderhit", limit |-> "none", ponder |-> FALSE, depth |-> 0]
QuitCmd == [cmd |-> "quit", limit |-> "none", ponder |-> FALSE, depth |-> 0]
\* go depth D, go depth D nodes N, go depth D movetime T, each with or without ponder
GoCmds == {GoCmd(l, p, GoDepth) : l \in {"none", "nodes", "time"}, p \in BOOLEAN}
SearchScripts ==
    {<<g, c>> : g \in GoCmds, c \in {StopCmd, PonderhitCmd, QuitCmd, GoCmd("none", FALSE, GoDepth)}}

NoWorker ==
    [pc |-> "none", depth |-> 0, max_depth |-> 0, max_nodes |-> 0, moves |-> <<>>,
     best_move |-> NO_MOVE, best_score |-> -INF, depth_best |-> NO_MOVE, depth_score |-> -INF,
     retries |-> 0, nsplits |-> 0, splits |-> <<>>, exchanged |-> FALSE]

SearchIdle ==
    /\ thread_count = 1 /\ multi_pv = 1 /\ legal_root = {}
    /\ script = <<>> /\ nSent = 0 /\ nRead = 0 /\ uciPc = "idle"
    /\ search_active = FALSE /\ pondering = FALSE /\ pondering_active = FALSE
    /\ root_moves = <<>> /\ tm = [infinite |-> FALSE, pondering |-> FALSE]
    /\ out = <<>> /\ goLog = <<>> /\ stopSentRunning = FALSE /\ stopOutcome = "none"
    /\ stop_search = FALSE /\ shared_best_move = NO_MOVE /\ shared_best_score = -INF
    /\ depth_done_count = 0 /\ depth_continue = FALSE /\ depth_ack_count = 0
    /\ node_limit = 0 /\ active_splits = {}
    /\ workers = [i \in ThreadIds |-> NoWorker]

SearchInitOn(roots, scripts, threads, pvs) ==
    /\ pos \in roots
    /\ ustack = <<>> /\ posOp = "init" /\ undoSeen = FALSE
    /\ kingMoved = [c \in Colors |-> FALSE]
    /\ thread_count \in threads /\ multi_pv \in pvs
    /\ legal_root = LegalMoves(pos)
    /\ script \in scripts /\ nSent = 0 /\ nRead = 0 /\ uciPc = "idle"
    /\ search_active = FALSE /\ pondering = FALSE /\ pondering_active = FALSE
    /\ root_moves = <<>> /\ tm = [infinite |-> FALSE, pondering |-> FALSE]
    /\ out = <<>> /\ goLog = <<>> /\ stopSentRunning = FALSE /\ stopOutcome = "none"
    /\ stop_search = FALSE /\ shared_best_move = NO_MOVE /\ shared_best_score = -INF
    /\ depth_done_count = 0 /\ depth_continue = FALSE /\ depth_ack_count = 0
    /\ node_limit = 0 /\ active_splits = {}
    /\ workers = [i \in ThreadIds |-> NoWorker]

SearchInit(scripts, threads, pvs) == SearchInitOn(RootPositions, scripts, threads, pvs)

\* a worker thread exists and has not returned from search()
Running(i) == workers[i].pc \notin {"none", "returned"}
SearchRunning == \E i \in ThreadIds : Running(i)
\* every thread of search_threads can be joined
AllReturned == \A i \in ThreadIds : ~Running(i)

\* one "bestmove" line: the move handed to move_to_uci (NO_MOVE for 0000),
\* the function that printed it and the go command being or last handled
BestmoveLine(arg, by, gid) ==
    [arg |-> arg, by |-> by, gid |-> gid, joined |-> AllReturned]

\* the environment writes the next line of the script to standard input
SendCmd ==
    /\ nSent < Len(script)
    /\ nSent' = nSent + 1
    /\ stopSentRunning' =
          IF script[nSent + 1].cmd = "stop" THEN SearchRunning ELSE stopSentRunning
    /\ UNCHANGED <<cfgVars, script, nRead, uciPc, search_active, pondering, pondering_active,
                   root_moves, tm, out, goLog, stopOutcome, sharedVars, workers,
                   posVars, walkVars, loopVars, unitVars>>

\* UCI::go from "int depth = 10" on (lines 3729-3855); o, pond and pact are
\* out, pondering and pondering_active as the call of stop() at its top left them
\* int moves_per_thread = (total_moves + thread_count - 1) / thread_count
moves_per_thread_floor(total, n) == total \div n
moves_per_thread(total, n) == (total + n - 1) \div n
\* thread_moves of worker i: filtered_root_moves[start, end), empty when
\* start >= total_moves (the worker is not started then)
thread_moves(filtered, i, n) ==
    LET start == i * moves_per_thread(Len(filtered), n)
        end == Min(start + moves_per_thread(Len(filtered), n), Len(filtered))
    IN  SubSeq(filtered, start + 1, end)

GoBody(c, o, pond, pact, gid) ==
    \E u \in UBOutcomes :
       LET filtered == filtered_root_moves(pos, u)
           total == Len(filtered)
           mpt == moves_per_thread(total, thread_count)
           part(i) == thread_moves(filtered, i, thread_count)
       IN  /\ tm' = [infinite |-> c.limit # "time", pondering |-> c.ponder]
           /\ stop_search' = FALSE
           /\ shared_best_move' = NO_MOVE
           /\ shared_best_score' = -INF
           /\ depth_done_count' = 0
           /\ depth_continue' = FALSE
           /\ depth_ack_count' = 0
           /\ root_moves' = filtered
           /\ IF total = 0
              THEN /\ out' = Append(o, [arg |-> NO_MOVE, by |-> "go", gid |-> gid,
                                        joined |-> TRUE])
                   /\ pondering' = pond
                   /\ pondering_active' = pact
                   /\ search_active' = FALSE
                   /\ workers' = [i \in ThreadIds |-> NoWorker]
                   /\ uciPc' = "idle"
              ELSE /\ out' = o
                   /\ pondering' = c.ponder
                   /\ pondering_active' = c.ponder
                   /\ search_active' = TRUE
                   /\ workers' =
                         [i \in ThreadIds |->
                            IF i < thread_count /\ i * mpt < total
                            THEN [NoWorker EXCEPT !.pc = "start", !.max_depth = c.depth,
                                     !.max_nodes = IF c.limit = "nodes" THEN NodeBudget ELSE 0,
                                     !.moves = part(i)]
                            ELSE NoWorker]
                   /\ uciPc' = IF c.ponder THEN "idle" ELSE "go_join"

\* run() reads "go": go() calls stop() first when a search is active
UciGo ==
    /\ uciPc = "idle" /\ nRead < nSent
    /\ script[nRead + 1].cmd = "go"
    /\ nRead' = nRead + 1
    /\ goLog' = Append(goLog, script[nRead + 1].ponder)
    /\ IF search_active
       THEN /\ stop_search' = TRUE
            /\ pondering' = FALSE
            /\ uciPc' = "go_stop_join"
            /\ UNCHANGED <<search_active, pondering_active, root_moves, tm, out,
                           shared_best_move, shared_best_score, depth_done_count,
                           depth_continue, depth_ack_count, workers>>
       ELSE GoBody(script[nRead + 1], out, pondering, pondering_active, Len(goLog) + 1)
    /\ UNCHANGED <<cfgVars, script, nSent, stopSentRunning, stopOutcome, node_limit,
                   active_splits, posVars, walkVars, loopVars, unitVars>>

\* the join of stop() called by go() completes; stop() prints and go() goes on
GoStopJoined ==
    /\ uciPc = "go_stop_join"
    /\ AllReturned
    /\ GoBody(script[nRead],
              IF shared_best_move # NO_MOVE
              THEN Append(out, BestmoveLine(shared_best_move, "stop", Len(goLog) - 1))
              ELSE out,
              pondering, FALSE, Len(goLog))
    /\ UNCHANGED <<cfgVars, script, nSent, nRead, goLog, stopSentRunning, stopOutcome,
                   node_limit, active_splits, posVars, walkVars, loopVars, unitVars>>

\* the join of a non-ponder go() completes (lines 3830-3849)
GoJoined ==
    /\ uciPc = "go_join"
    /\ AllReturned
    /\ workers' = [i \in ThreadIds |-> NoWorker]
    /\ search_active' = FALSE
    /\ out' = Append(out, BestmoveLine(IF shared_best_move = NO_MOVE /\ root_moves # <<>>
                                       THEN root_moves[1] ELSE shared_best_move,
                                       "go", Len(goLog)))
    /\ uciPc' = "idle"
    /\ UNCHANGED <<cfgVars, script, nSent, nRead, pondering, pondering_active, root_moves, tm,
                   goLog, stopSentRunning, stopOutcome, sharedVars, posVars, walkVars, loopVars, unitVars>>

\* run() reads "stop" or "quit" (quit calls stop() and leaves the loop)
UciStop ==
    /\ uciPc = "idle" /\ nRead < nSent
    /\ script[nRead + 1].cmd \in {"stop", "quit"}
    /\ nRead' = nRead + 1
    /\ IF search_active
       THEN /\ stop_search' = TRUE
            /\ pondering' = FALSE
            /\ uciPc' = IF script[nRead + 1].cmd = "stop" THEN "stop_join" ELSE "quit_join"
            /\ UNCHANGED stopOutcome
       ELSE /\ uciPc' = IF script[nRead + 1].cmd = "stop" THEN "idle" ELSE "ended"
            /\ stopOutcome' = IF script[nRead + 1].cmd = "stop" THEN "ignored" ELSE stopOutcome
            /\ UNCHANGED <<stop_search, pondering>>
    /\ UNCHANGED <<cfgVars, script, nSent, search_active, pondering_active, root_moves, tm, out,
                   goLog, stopSentRunning, shared_best_move, shared_best_score,
                   depth_done_count, depth_continue, depth_ack_count, node_limit,
                   active_splits, workers, posVars, walkVars, loopVars, unitVars>>

\* the join of stop() completes (lines 3862-3871)
StopJoined ==
    /\ uciPc \in {"stop_join", "quit_join"}
    /\ AllReturned
    /\ workers' = [i \in ThreadIds |-> NoWorker]
    /\ search_active' = FALSE
    /\ pondering_active' = FALSE
    /\ out' = IF shared_best_move # NO_MOVE
              THEN Append(out, BestmoveLine(shared_best_move, "stop", Len(goLog)))
              ELSE out
    /\ stopOutcome' = IF uciPc = "stop_join"
                      THEN (IF shared_best_move # NO_MOVE THEN "answered" ELSE "silent")
                      ELSE stopOutcome
    /\ uciPc' = IF uciPc = "stop_join" THEN "idle" ELSE "ended"
    /\ UNCHANGED <<cfgVars, script, nSent, nRead, pondering, root_moves, tm, goLog,
                   stopSentRunning, sharedVars, posVars, walkVars, loopVars, unitVars>>

\* run() reads "ponderhit"
UciPonderhit ==
    /\ uciPc = "idle" /\ nRead < nSent
    /\ script[nRead + 1].cmd = "ponderhit"
    /\ nRead' = nRead + 1
    /\ IF search_active /\ pondering_active
       THEN /\ pondering' = FALSE
            /\ pondering_active' = FALSE
            /\ uciPc' = "ponderhit_join"
       ELSE UNCHANGED <<pondering, pondering_active, uciPc>>
    /\ UNCHANGED <<cfgVars, script, nSent, search_active, root_moves, tm, out, goLog,
                   stopSentRunning, stopOutcome, sharedVars, workers, posVars, walkVars,
                   loopVars, unitVars>>

\* the join of ponderhit() completes (lines 3881-3893)
PonderhitJoined ==
    /\ uciPc = "ponderhit_join"
    /\ AllReturned
    /\ workers' = [i \in ThreadIds |-> NoWorker]
    /\ search_active' = FALSE
    /\ LET gen == generate_moves(pos, FALSE)
           best == IF shared_best_move # NO_MOVE THEN shared_best_move
                   ELSE IF gen # <<>> THEN gen[1] ELSE NO_MOVE
       IN  out' = Append(out, BestmoveLine(best, "ponderhit", Len(goLog)))
    /\ uciPc' = "idle"
    /\ UNCHANGED <<cfgVars, script, nSent, nRead, pondering, pondering_active, root_moves, tm,
                   goLog, stopSentRunning, stopOutcome, sharedVars, posVars, walkVars,
                   loopVars, unitVars>>

(***************************************************************************)
(* SearchThread::search on worker thread i                                 *)
(***************************************************************************)
SetW(i, r) == workers' = [workers EXCEPT ![i] = r]

\* lines 3180-3207: every worker clears the shared stop flag when it starts
WStart(i) ==
    /\ workers[i].pc = "start"
    /\ stop_search' = FALSE
    /\ node_limit' = workers[i].max_nodes
    /\ SetW(i, [workers[i] EXCEPT !.pc = "loop", !.depth = 1,
                                  !.best_move = workers[i].moves[1], !.best_score = -INF])
    /\ UNCHANGED <<cfgVars, uciVars, shared_best_move, shared_best_score, depth_done_count,
                   depth_continue, depth_ack_count, active_splits, posVars, walkVars, loopVars, unitVars>>

\* tm.time_for_depth can answer false only for a timed, non-ponder search
TimeLimited == ~tm.infinite /\ ~tm.pondering

\* the head of the iterative-deepening loop (lines 3209-3232) lets the worker in
WLoopEnter(i) ==
    /\ workers[i].pc = "loop"
    /\ workers[i].depth <= workers[i].max_depth
    /\ ~stop_search
    /\ SetW(i, [workers[i] EXCEPT !.pc = "iter", !.depth_best = NO_MOVE,
                                  !.depth_score = -INF, !.retries = 0, !.nsplits = 0])
    /\ UNCHANGED <<cfgVars, uciVars, sharedVars, posVars, walkVars, loopVars, unitVars>>

\* the loop ends: depth > max_depth, stop_search, or time_for_depth false
WLoopExit(i) ==
    /\ workers[i].pc = "loop"
    /\ \/ workers[i].depth > workers[i].max_depth
       \/ stop_search
       \/ workers[i].depth > 1 /\ TimeLimited
    /\ SetW(i, [workers[i] EXCEPT !.pc = "latch"])
    /\ UNCHANGED <<cfgVars, uciVars, sharedVars, posVars, walkVars, loopVars, unitVars>>

\* one pass over the root moves completes (lines 3237-3317); at depth >= 5 the
\* aspiration window may fail and the pass is repeated
WIterDone(i) ==
    /\ workers[i].pc = "iter"
    /\ ~stop_search
    /\ \E m \in SeqToSet(workers[i].moves), s \in Scores, again \in BOOLEAN :
          /\ again => (workers[i].depth >= 5 /\ workers[i].retries < MaxRetry)
          /\ SetW(i, [workers[i] EXCEPT !.depth_best = m, !.depth_score = s,
                         !.pc = IF again THEN "iter" ELSE "post",
                         !.retries = IF again THEN @ + 1 ELSE @])
    /\ UNCHANGED <<cfgVars, uciVars, sharedVars, posVars, walkVars, loopVars, unitVars>>

\* moves of the pass searched before it was cut short
Partial(i) ==
    {[m |-> NO_MOVE, s |-> -INF]} \cup {[m |-> m, s |-> s] : m \in SeqToSet(workers[i].moves), s \in Scores}

\* negamax or quiescence reaches node_limit or tm.stop_early() and sets the flag
WIterLimit(i) ==
    /\ workers[i].pc = "iter"
    /\ node_limit > 0 \/ TimeLimited
    /\ stop_search' = TRUE
    /\ \E r \in Partial(i) :
          SetW(i, [workers[i] EXCEPT !.depth_best = r.m, !.depth_score = r.s, !.pc = "post"])
    /\ UNCHANGED <<cfgVars, uciVars, shared_best_move, shared_best_score, depth_done_count,
                   depth_continue, depth_ack_count, node_limit, active_splits, posVars,
                   walkVars, loopVars, unitVars>>

\* the pass sees stop_search set and breaks out of the root move loop
WIterAbort(i) ==
    /\ workers[i].pc = "iter"
    /\ stop_search
    /\ \E r \in Partial(i) :
          SetW(i, [workers[i] EXCEPT !.depth_best = r.m, !.depth_score = r.s, !.pc = "post"])
    /\ UNCHANGED <<cfgVars, uciVars, sharedVars, posVars, walkVars, loopVars, unitVars>>

\* lines 3319-3334 and the loop increment when there is no MultiPV barrier;
\* depth_best, depth_score and the window are locals of the loop body, not
\* read after line 3335
WPost(i) ==
    /\ workers[i].pc = "post"
    /\ LET w == workers[i]
           upd == IF ~stop_search /\ w.depth_best # NO_MOVE
                  THEN [w EXCEPT !.best_move = w.depth_best, !.best_score = w.depth_score]
                  ELSE w
           kept == [upd EXCEPT !.depth_best = NO_MOVE, !.depth_score = -INF, !.retries = 0]
       IN  SetW(i, IF multi_pv > 1
                   THEN [kept EXCEPT !.pc = "barrier"]
                   ELSE [kept EXCEPT !.pc = "loop", !.depth = @ + 1])
    /\ UNCHANGED <<cfgVars, uciVars, sharedVars, posVars, walkVars, loopVars, unitVars>>

\* the output loop of thread 0 at the barrier (lines 3343-3392): one
\* "info depth d multipv k" line for each of the first
\* min(multi_pv, root_infos.size()) entries of root_infos that has a score
MultiPVLines(d) ==
    [by |-> "info", gid |-> Len(goLog), depth |-> d,
     lines |-> Min(multi_pv, Len(root_moves))]

\* MultiPV barrier, arrival (lines 3337-3395): total_threads is thread_count
WBarrierArrive(i) ==
    /\ workers[i].pc = "barrier"
    /\ IF depth_done_count + 1 = thread_count
       THEN /\ depth_done_count' = 0
            /\ depth_continue' = TRUE
            /\ out' = IF i = 0 THEN Append(out, MultiPVLines(workers[i].depth)) ELSE out
            /\ SetW(i, [workers[i] EXCEPT !.pc = "ack"])
       ELSE /\ depth_done_count' = depth_done_count + 1
            /\ UNCHANGED <<depth_continue, out>>
            /\ SetW(i, [workers[i] EXCEPT !.pc = "wait_continue"])
    /\ UNCHANGED <<cfgVars, script, nSent, nRead, uciPc, search_active, pondering,
                   pondering_active, root_moves, tm, goLog, stopSentRunning, stopOutcome,
                   stop_search, shared_best_move, shared_best_score,
                   depth_ack_count, node_limit, active_splits, posVars, walkVars, loopVars, unitVars>>

\* while (!depth_continue) yield
WBarrierRelease(i) ==
    /\ workers[i].pc = "wait_continue"
    /\ depth_continue
    /\ SetW(i, [workers[i] EXCEPT !.pc = "ack"])
    /\ UNCHANGED <<cfgVars, uciVars, sharedVars, posVars, walkVars, loopVars, unitVars>>

\* MultiPV barrier, acknowledgement (lines 3396-3402)
WBarrierAck(i) ==
    /\ workers[i].pc = "ack"
    /\ IF depth_ack_count + 1 = thread_count
       THEN /\ depth_ack_count' = 0
            /\ depth_continue' = FALSE
            /\ SetW(i, [workers[i] EXCEPT !.pc = "loop", !.depth = @ + 1])
       ELSE /\ depth_ack_count' = depth_ack_count + 1
            /\ UNCHANGED depth_continue
            /\ SetW(i, [workers[i] EXCEPT !.pc = "wait_reset"])
    /\ UNCHANGED <<cfgVars, uciVars, stop_search, shared_best_move, shared_best_score,
                   depth_done_count, node_limit, active_splits, posVars, walkVars, loopVars, unitVars>>

\* while (depth_continue) yield
WBarrierLeave(i) ==
    /\ workers[i].pc = "wait_reset"
    /\ ~depth_continue
    /\ SetW(i, [workers[i] EXCEPT !.pc = "loop", !.depth = @ + 1])
    /\ UNCHANGED <<cfgVars, uciVars, sharedVars, posVars, walkVars, loopVars, unitVars>>

\* lines 3413-3417: a worker enters help_search when its local_root_moves
\* is empty; a worker that got this far has a move (line 3198 returned
\* otherwise), so it returns from search()
after_latch(w) == IF w.moves = <<>> THEN "help_search" ELSE "returned"

\* lines 3406-3408: the score is raised by compare-exchange (exchanged
\* records that this worker's exchange replaced the shared score)
WLatch(i) ==
    /\ workers[i].pc = "latch"
    /\ LET w == workers[i] IN
       /\ shared_best_score' = Max(shared_best_score, w.best_score)
       /\ SetW(i, [w EXCEPT !.pc = IF w.best_move # NO_MOVE THEN "latch_move" ELSE after_latch(w),
                             !.exchanged = w.best_score > shared_best_score])
    /\ UNCHANGED <<cfgVars, uciVars, stop_search, shared_best_move, depth_done_count,
                   depth_continue, depth_ack_count, node_limit, active_splits, posVars,
                   walkVars, loopVars, unitVars>>

\* line 3409: the load of shared_best_score and the comparison
WLatchMove(i) ==
    /\ workers[i].pc = "latch_move"
    /\ SetW(i, [workers[i] EXCEPT !.pc = IF workers[i].best_score >= shared_best_score
                                         THEN "latch_store" ELSE after_latch(workers[i])])
    /\ UNCHANGED <<cfgVars, uciVars, sharedVars, posVars, walkVars, loopVars, unitVars>>

\* line 3410: shared_best_move.store(best_move)
WLatchStore(i) ==
    /\ workers[i].pc = "latch_store"
    /\ shared_best_move' = workers[i].best_move
    /\ SetW(i, [workers[i] EXCEPT !.pc = after_latch(workers[i])])
    /\ UNCHANGED <<cfgVars, uciVars, stop_search, shared_best_score, depth_done_count,
                   depth_continue, depth_ack_count, node_limit, active_splits, posVars,
                   walkVars, loopVars, unitVars>>

(***************************************************************************)
(* YBWC split points (negamax lines 2920-2966, help_at_split).  A worker   *)
(* is the only thread at its split points: help_search, the one caller of  *)
(* help_at_split for another thread's split point, is only called on line  *)
(* 3415, which line 3198 makes unreachable.                                *)
(***************************************************************************)
TopSplit(i) == workers[i].splits[Len(workers[i].splits)]

\* new SplitPoint with the smallest move list negamax splits on
NewSplitPoint == [next_move |-> 0, size |-> SplitMinMoves + 1, workers |-> 0, finished |-> FALSE]

\* help_at_split, entry: sp->workers++ and the first fetch_add
help_at_split_enter(sp) == [sp EXCEPT !.workers = @ + 1, !.next_move = @ + 1]

\* negamax opens a split point, publishes it and enters help_at_split; the
\* worker then searches the move it fetched, where negamax may split again
WSplitOpen(i) ==
    /\ workers[i].pc \in {"iter", "help"}
    /\ thread_count > 1
    /\ workers[i].depth - 1 >= SplitMinDepth
    /\ workers[i].nsplits < MaxSplits
    /\ active_splits' = active_splits \cup {<<i, Len(workers[i].splits) + 1>>}
    /\ SetW(i, [workers[i] EXCEPT !.pc = "help", !.nsplits = @ + 1,
                   !.splits = Append(@, help_at_split_enter(NewSplitPoint))])
    /\ UNCHANGED <<cfgVars, uciVars, stop_search, shared_best_move, shared_best_score,
                   depth_done_count, depth_continue, depth_ack_count, node_limit, posVars,
                   walkVars, loopVars, unitVars>>

\* help_at_split without its last three lines: finished is never set
help_at_split_leave_unfinished(sp) ==
    [sp EXCEPT !.workers = @ - 1]

\* help_at_split setting finished without the decrement of workers
help_at_split_leave_counted(sp) ==
    [sp EXCEPT !.finished = TRUE]

\* help_at_split after its loop: sp->workers-- and, at zero, finished = true
help_at_split_leave(sp) ==
    [sp EXCEPT !.workers = @ - 1, !.finished = (sp.workers - 1 = 0)]

\* help_at_split, the rest of the loop: fetch_add until idx >= moves.size()
RECURSIVE help_at_split_loop(_)
help_at_split_loop(sp) ==
    IF sp.next_move - 1 >= sp.size
    THEN help_at_split_leave(sp)
    ELSE help_at_split_loop([sp EXCEPT !.next_move = @ + 1])

\* the worker, alone at its split point, searches the remaining moves and
\* leaves help_at_split
WSplitLeave(i) ==
    /\ workers[i].pc = "help"
    /\ SetW(i, [workers[i] EXCEPT !.pc = "wait_split",
                   !.splits = [@ EXCEPT ![Len(@)] = help_at_split_loop(TopSplit(i))]])
    /\ UNCHANGED <<cfgVars, uciVars, sharedVars, posVars, walkVars, loopVars, unitVars>>

\* sp->cv.wait(lock, finished) returns; the split point is erased and deleted
WSplitClose(i) ==
    /\ workers[i].pc = "wait_split"
    /\ TopSplit(i).finished
    /\ active_splits' = active_splits \ {<<i, Len(workers[i].splits)>>}
    /\ SetW(i, [workers[i] EXCEPT !.splits = SubSeq(@, 1, Len(@) - 1),
                   !.pc = IF Len(workers[i].splits) > 1 THEN "help" ELSE "iter"])
    /\ UNCHANGED <<cfgVars, uciVars, stop_search, shared_best_move, shared_best_score,
                   depth_done_count, depth_continue, depth_ack_count, node_limit, posVars,
                   walkVars, loopVars, unitVars>>

(***************************************************************************)
(* The shared best-move latch: the workers of one go depth command have    *)
(* left the iterative deepening, each with its best move and best score.   *)
(***************************************************************************)
\* final scores of the workers: 0..MaxLatchScore
MaxLatchScore == 1
LatchScores == 0..MaxLatchScore
LatchPositions == {set_fen(FenTwoMoves), set_fen(FenKings)}

LatchInit ==
    /\ pos \in LatchPositions
    /\ ustack = <<>> /\ posOp = "init" /\ undoSeen = FALSE
    /\ kingMoved = [c \in Colors |-> FALSE]
    /\ thread_count \in 1..MaxThreads /\ multi_pv = 1
    /\ legal_root = LegalMoves(pos)
    /\ script = <<GoCmd("none", FALSE, GoDepth)>> /\ nSent = 1 /\ nRead = 1
    /\ uciPc = "go_join"
    /\ search_active = TRUE /\ pondering = FALSE /\ pondering_active = FALSE
    /\ root_moves = filtered_root_moves(pos, "skip")
    /\ tm = [infinite |-> TRUE, pondering |-> FALSE]
    /\ out = <<>> /\ goLog = <<FALSE>> /\ stopSentRunning = FALSE /\ stopOutcome = "none"
    /\ stop_search = FALSE /\ shared_best_move = NO_MOVE /\ shared_best_score = -INF
    /\ depth_done_count = 0 /\ depth_continue = FALSE /\ depth_ack_count = 0
    /\ node_limit = 0 /\ active_splits = {}
    /\ \E sc \in [ThreadIds -> LatchScores], k \in [ThreadIds -> 1..2] :
          workers =
             [i \in ThreadIds |->
                LET mine == thread_moves(root_moves, i, thread_count)
                IN  IF i < thread_count /\ mine # <<>>
                    THEN [NoWorker EXCEPT !.pc = "latch", !.max_depth = GoDepth,
                             !.depth = GoDepth + 1, !.moves = mine,
                             !.best_move = mine[Min(k[i], Len(mine))],
                             !.best_score = sc[i]]
                    ELSE NoWorker]

LatchWorker(i) == WLatch(i) \/ WLatchMove(i) \/ WLatchStore(i)

\* 4k3/8/8/8/8/8/8/4K3 w - - 0 1
FenKingsE ==
    Fen(<<"4","k","3","/","8","/","8","/","8","/","8","/","8","/","8","/","4","K","3">>,
        "w", <<"-">>, <<"-">>)
\* root positions with 1, 2, 3 and 5 legal moves
PartPositions ==
    {set_fen(FenOneMove), set_fen(FenTwoMoves), set_fen(FenKings), set_fen(FenKingsE)}

(***************************************************************************)
(* One worker's walk of the game tree: the call stack of search() (root    *)
(* move loop), negamax and quiescence, the worker's node counter, and the  *)
(* places where stop_search is read.  The tree itself is arbitrary: a      *)
(* frame may call any number of children.                                  *)
(***************************************************************************)
\* "nodes.load() % 256 == 0": the flag is polled on entry every 256 nodes
PollInterval == 256
MAX_QSEARCH_DEPTH == 8
\* negamax frames below the root, and the quiescence frames modelled on top
MaxWalkPly == 2
MaxWalkQ == 2

Frame(kind, inloop) == [kind |-> kind, inloop |-> inloop]
Top == wstack[Len(wstack)]
Pop == SubSeq(wstack, 1, Len(wstack) - 1)
Count(kind) == Cardinality({k \in DOMAIN wstack : wstack[k].kind = kind})

\* what the walk leaves alone
WalkFrame ==
    UNCHANGED <<posVars, cfgVars, uciVars, shared_best_move, shared_best_score,
                depth_done_count, depth_continue, depth_ack_count, node_limit,
                active_splits, workers, loopVars, unitVars>>

WalkInit ==
    /\ wstack = <<Frame("root", TRUE)>>
    /\ wnodes = 0
    /\ wextra = 0
    /\ wret = FALSE
    /\ wpc = "walking"

\* nodes++ ; the counter is kept modulo PollInterval, wextra counts the
\* nodes visited since stop_search became true
Visit ==
    /\ wnodes' = (wnodes + 1) % PollInterval
    /\ wextra' = IF stop_search THEN Min(wextra + 1, PollInterval + 1) ELSE wextra

\* the entry of negamax (lines 2755-2761) or quiescence (lines 2603-2610)
\* with the counter at n: at a multiple of 256 with the flag set the call
\* returns 0 at once, otherwise the frame f is entered on the stack s
Enter(s, f, n) ==
    IF n % PollInterval = 0 /\ stop_search
    THEN /\ wstack' = s /\ wret' = TRUE
    ELSE /\ wstack' = Append(s, f) /\ wret' = FALSE

\* the loop condition of a negamax frame in its move loop after a child
\* returned: line 3048, if (stop_search) return 0
MustUnwind == Top.kind = "negamax" /\ Top.inloop /\ wret /\ stop_search

\* search(): the root move loop counts a node and calls negamax (lines 3237-3283)
WalkRootMove ==
    /\ wpc = "walking" /\ Top.kind = "root"
    /\ ~wret /\ ~stop_search
    /\ Visit
    /\ Enter(wstack, Frame("negamax", FALSE), wnodes + 1)
    /\ UNCHANGED <<wpc, stop_search>>
    /\ WalkFrame

\* search(): negamax has returned to the root move loop; if (stop_search) break
\* ends the walk (line 3288), as does the end of the last iteration
WalkRootNext ==
    /\ wpc = "walking" /\ Top.kind = "root"
    /\ IF wret /\ ~stop_search
       THEN wret' = FALSE /\ UNCHANGED wpc
       ELSE wpc' = "returned" /\ UNCHANGED wret
    /\ UNCHANGED <<wstack, wnodes, wextra, stop_search>>
    /\ WalkFrame

\* negamax before its move loop calls negamax without counting a node:
\* singular extension, null move, razoring, internal iterative deepening
WalkPreCall ==
    /\ wpc = "walking" /\ Top.kind = "negamax" /\ ~Top.inloop
    /\ Count("negamax") < MaxWalkPly
    /\ Enter(wstack, Frame("negamax", FALSE), wnodes)
    /\ UNCHANGED <<wnodes, wextra, wpc, stop_search>>
    /\ WalkFrame

\* negamax, move loop: nodes++ and the call of negamax for the move
WalkLoopMove ==
    /\ wpc = "walking" /\ Top.kind = "negamax"
    /\ ~MustUnwind
    /\ Count("negamax") < MaxWalkPly
    /\ Visit
    /\ Enter([wstack EXCEPT ![Len(wstack)].inloop = TRUE], Frame("negamax", FALSE), wnodes + 1)
    /\ UNCHANGED <<wpc, stop_search>>
    /\ WalkFrame

\* negamax at depth <= 0 returns quiescence(...) (line 2821); quiescence
\* counts the node and polls
WalkToQuiescence ==
    /\ wpc = "walking" /\ Top.kind = "negamax" /\ ~Top.inloop
    /\ Visit
    /\ Enter(Pop, Frame("quiescence", TRUE), wnodes + 1)
    /\ UNCHANGED <<wpc, stop_search>>
    /\ WalkFrame

\* quiescence, capture loop: the call for one capture (line 2681); nothing
\* reads stop_search when the call returns
WalkCapture ==
    /\ wpc = "walking" /\ Top.kind = "quiescence"
    /\ Count("quiescence") < Min(MaxWalkQ, MAX_QSEARCH_DEPTH)
    /\ Visit
    /\ Enter(wstack, Frame("quiescence", TRUE), wnodes + 1)
    /\ UNCHANGED <<wpc, stop_search>>
    /\ WalkFrame

\* a negamax or quiescence frame returns: its loop is over, a cutoff, or
\* line 3048
WalkReturn ==
    /\ wpc = "walking" /\ Top.kind \in {"negamax", "quiescence"}
    /\ wstack' = Pop
    /\ wret' = TRUE
    /\ UNCHANGED <<wnodes, wextra, wpc, stop_search>>
    /\ WalkFrame

\* another thread sets stop_search: the stop command, or a worker's limit
WalkStop ==
    /\ wpc = "walking" /\ ~stop_search
    /\ stop_search' = TRUE
    /\ UNCHANGED <<wstack, wnodes, wextra, wret, wpc>>
    /\ WalkFrame

(***************************************************************************)
(* The command loop UCI::run: one action per kind of input line.  A line   *)
(* is its first token, the option or argument name, and the value token    *)
(* as a sequence of characters.                                            *)
(***************************************************************************)
MAX_THREADS == 64
INT_MAX == 2147483647
\* lines the loop reads in one run
MaxLines == 3

DecDigits == <<"0", "1", "2", "3", "4", "5", "6", "7", "8", "9">>
IsDigit(c) == IndexIn(DecDigits, c) # 0
DigitVal(c) == IndexIn(DecDigits, c) - 1

\* std::stoi: an optional sign, then the longest run of digits; characters
\* after the digits are ignored.  No digit: std::invalid_argument.  A value
\* that does not fit an int: std::out_of_range.  acc is the magnitude read
\* so far, -1 once it has passed INT_MAX.
RECURSIVE stoi_digits(_, _, _)
stoi_digits(s, k, acc) ==
    IF k > Len(s) \/ ~IsDigit(s[k]) THEN acc
    ELSE stoi_digits(s, k + 1,
            IF acc = -1 \/ acc > (INT_MAX - DigitVal(s[k])) \div 10
            THEN -1 ELSE acc * 10 + DigitVal(s[k]))
stoi(s) ==
    LET signed == s # <<>> /\ s[1] \in {"+", "-"}
        first == IF signed THEN 2 ELSE 1
        mag == stoi_digits(s, first, 0)
    IN  IF first > Len(s) \/ ~IsDigit(s[first])
        THEN [ok |-> FALSE, val |-> 0, what |-> "invalid_argument"]
        ELSE IF mag = -1
        THEN [ok |-> FALSE, val |-> 0, what |-> "out_of_range"]
        ELSE [ok |-> TRUE, val |-> IF signed /\ s[1] = "-" THEN -mag ELSE mag, what |-> ""]

Line(cmd, name, value) == [cmd |-> cmd, name |-> name, value |-> value]
\* value tokens: in range, zero, negative, empty, not a number, digits with a
\* suffix, too large for an int
ValueTokens ==
    {<<"2">>, <<"0">>, <<"-", "1">>, <<>>, <<"a", "b", "c">>, <<"3", "x">>,
     <<"9", "9", "9", "9", "9", "9", "9", "9", "9", "9", "9">>}
SetoptionLines == {Line("setoption", n, v) : n \in {"Threads", "MultiPV"}, v \in ValueTokens}
GoLines == {Line("go", "depth", v) : v \in ValueTokens}
OtherLines == {Line("isready", "", <<>>), Line("foo", "", <<>>)}

LoopInit ==
    /\ loopPc = "reading"
    /\ linesRead = 0
    /\ lastLine = NoLine
    /\ last_pv = <<>>

\* what the loop leaves alone
LoopFrame ==
    UNCHANGED <<posVars, legal_root, uciVars, sharedVars, workers, walkVars, unitVars>>

CanRead == loopPc = "reading" /\ linesRead < MaxLines

\* "isready" is answered, a line with an unknown first token is skipped
LoopOther ==
    /\ CanRead
    /\ \E l \in OtherLines : lastLine' = l
    /\ linesRead' = linesRead + 1
    /\ UNCHANGED <<loopPc, last_pv, thread_count, multi_pv>>
    /\ LoopFrame

\* "setoption name Threads|MultiPV value v": set_option calls std::stoi,
\* and nothing catches what it throws
LoopSetoption ==
    /\ CanRead
    /\ \E l \in SetoptionLines :
          LET r == stoi(l.value)
          IN  /\ lastLine' = l
              /\ loopPc' = IF r.ok THEN "reading" ELSE "terminated"
              /\ thread_count' = IF r.ok /\ l.name = "Threads"
                                 THEN Min(r.val, MAX_THREADS) ELSE thread_count
              /\ multi_pv' = IF r.ok /\ l.name = "MultiPV" THEN r.val ELSE multi_pv
    /\ linesRead' = linesRead + 1
    /\ UNCHANGED last_pv
    /\ LoopFrame

\* "go depth v": go() parses v with std::stoi (line 3735).  The search that
\* follows is summed up by what the loop sees of it: with thread_count = 0
\* it divides by zero (line 3805), otherwise go() returns, and last_pv may
\* have been replaced, which needs root_infos scores and so multi_pv > 1
LoopGo ==
    /\ CanRead
    /\ \E l \in GoLines, zero \in {"trap", "value"}, pv \in {<<>>, <<make_move_enc(12, 28)>>} :
          LET r == stoi(l.value)
          IN  /\ lastLine' = l
              /\ loopPc' = IF ~r.ok \/ (thread_count = 0 /\ zero = "trap")
                           THEN "terminated" ELSE "reading"
              /\ last_pv' = IF r.ok /\ thread_count # 0 /\ multi_pv > 1 /\ pv # <<>>
                            THEN pv ELSE last_pv
    /\ linesRead' = linesRead + 1
    /\ UNCHANGED <<thread_count, multi_pv>>
    /\ LoopFrame

\* "learn result ...": with no PV stored the handler returns from run()
LoopLearn ==
    /\ CanRead
    /\ lastLine' = Line("learn", "result", <<>>)
    /\ loopPc' = IF last_pv = <<>> THEN "returned" ELSE "reading"
    /\ linesRead' = linesRead + 1
    /\ UNCHANGED <<last_pv, thread_count, multi_pv>>
    /\ LoopFrame

\* "quit": stop() and break
LoopQuit ==
    /\ CanRead
    /\ lastLine' = Line("quit", "", <<>>)
    /\ loopPc' = "quit"
    /\ linesRead' = linesRead + 1
    /\ UNCHANGED <<last_pv, thread_count, multi_pv>>
    /\ LoopFrame

\* std::getline fails: end of input
LoopEof ==
    /\ loopPc = "reading"
    /\ loopPc' = "eof"
    /\ UNCHANGED <<lastLine, linesRead, last_pv, thread_count, multi_pv>>
    /\ LoopFrame

(***************************************************************************)
(* Transposition table (class TranspositionTable) and the score            *)
(* adjustment SearchThread::negamax makes around store and probe           *)
(***************************************************************************)
BOUND_NONE == 0
BOUND_UPPER == 1
BOUND_LOWER == 2
BOUND_EXACT == 3
MAX_PLY == 128
MATE_SCORE == 32000
MATE_OFFSET == 20000

\* number of buckets of the table (size)
TTSize == 2
\* keys 0..MaxKey, depths 0..MaxTTDepth, scores -MaxTTScore..MaxTTScore
MaxKey == 2
MaxTTDepth == 1
MaxTTScore == 1
\* calls of store and of new_search in one behaviour
MaxStores == 2
MaxAge == 1
\* plies at which negamax stores and probes: 0..MaxNodePly
MaxNodePly == 2

TTKeys == 0..MaxKey
TTDepths == 0..MaxTTDepth
TTScores == (-MaxTTScore)..MaxTTScore
TTBounds == {BOUND_NONE, BOUND_UPPER, BOUND_LOWER, BOUND_EXACT}
\* the move and dtz arguments of store: a negamax store carries a move and
\* dtz = 0, a tablebase store NO_MOVE and a distance
TTPayloads == {[move |-> NO_MOVE, dtz |-> 0], [move |-> make_move_enc(12, 28), dtz |-> 0],
               [move |-> NO_MOVE, dtz |-> 1]}
\* the alpha/beta windows of probe
TTWindows == {w \in TTScores \X TTScores : w[1] < w[2]}

\* TTEntry{} as std::vector::resize and clear() leave it
EmptyEntry ==
    [key |-> 0, depth |-> 0, score |-> 0, bound |-> BOUND_NONE, move |-> NO_MOVE,
     age |-> 0, dtz |-> 0]
EmptyTable == [table |-> [i \in 0..(TTSize - 1) |-> EmptyEntry], age |-> 0]

\* store without its depth test: the incoming entry always wins
store_always(t, key, depth, score, bound, move, dtz) ==
    [t EXCEPT !.table[key % TTSize] =
        [key |-> key, depth |-> depth, score |-> score, bound |-> bound, move |-> move,
         age |-> t.age, dtz |-> dtz]]

store(t, key, depth, score, bound, move, dtz) ==
    LET idx == key % TTSize
        e == t.table[idx]
    IN  IF e.key = key /\ e.depth > depth THEN t
        ELSE [t EXCEPT !.table[idx] =
                 [key |-> key, depth |-> depth, score |-> score, bound |-> bound,
                  move |-> move, age |-> t.age, dtz |-> dtz]]

new_search(t) == [t EXCEPT !.age = @ + 1]

\* probe without its depth test
probe_any_depth(t, key, depth, alpha, beta, o) ==
    LET e == t.table[key % TTSize]
    IN  IF e.key # key THEN [o EXCEPT !.hit = FALSE]
        ELSE [hit |-> \/ e.bound = BOUND_EXACT
                      \/ e.bound = BOUND_LOWER /\ e.score >= beta
                      \/ e.bound = BOUND_UPPER /\ e.score <= alpha,
              score |-> e.score, move |-> e.move, dtz |-> e.dtz]

\* o holds the caller's score, move and dtz variables before the call
probe(t, key, depth, alpha, beta, o) ==
    LET e == t.table[key % TTSize]
    IN  IF e.key # key THEN [o EXCEPT !.hit = FALSE]
        ELSE LET found == [hit |-> FALSE, score |-> e.score, move |-> e.move, dtz |-> e.dtz]
             IN  IF e.depth >= depth
                 THEN IF e.bound = BOUND_EXACT THEN [found EXCEPT !.hit = TRUE]
                      ELSE IF e.bound = BOUND_LOWER /\ e.score >= beta
                           THEN [found EXCEPT !.hit = TRUE]
                      ELSE IF e.bound = BOUND_UPPER /\ e.score <= alpha
                           THEN [found EXCEPT !.hit = TRUE]
                      ELSE found
                 ELSE found

\* the caller's variables before probe (negamax lines 2776-2778, with a
\* static evaluation of 0)
ProbeOut == [hit |-> FALSE, score |-> 0, move |-> NO_MOVE, dtz |-> 0]

NoTTOp == [op |-> "none"]
TTIdle == tt = EmptyTable /\ ttOp = NoTTOp

\* the stores made so far are counted in the last-call record
Stores == IF ttOp.op = "none" THEN 0 ELSE ttOp.stores

TTFrame == UNCHANGED <<posVars, searchVars, walkVars, loopVars, timeVars, notationVars, infoVars, nodeVars>>

\* tt.store(key, depth, score, bound, move, dtz)
TTStore ==
    /\ Stores < MaxStores
    /\ \E key \in TTKeys, depth \in TTDepths, score \in TTScores, bound \in TTBounds,
          pl \in TTPayloads :
          /\ tt' = store(tt, key, depth, score, bound, pl.move, pl.dtz)
          /\ ttOp' = [op |-> "store", stores |-> Stores + 1, key |-> key, depth |-> depth,
                      score |-> score, bound |-> bound, move |-> pl.move, dtz |-> pl.dtz]
    /\ TTFrame

\* tt.new_search() at the start of SearchThread::search
TTNewSearch ==
    /\ tt.age < MaxAge
    /\ tt' = new_search(tt)
    /\ ttOp' = [op |-> "new_search", stores |-> Stores]
    /\ TTFrame

\* tt.probe(key, depth, alpha, beta, score, move, dtz); probe leaves the
\* table as it is, so one probe is taken from each state of the table
TTProbe ==
    /\ ttOp.op # "probe"
    /\ \E key \in TTKeys, depth \in TTDepths, w \in TTWindows :
          ttOp' = [op |-> "probe", stores |-> Stores, key |-> key, depth |-> depth,
                   alpha |-> w[1], beta |-> w[2],
                   res |-> probe(tt, key, depth, w[1], w[2], ProbeOut)]
    /\ UNCHANGED tt
    /\ TTFrame

\* the table after one call of store on the empty table
OneResident ==
    {store(EmptyTable, key, depth, score, bound, pl.move, pl.dtz) :
        key \in TTKeys, depth \in TTDepths, score \in TTScores, bound \in TTBounds,
        pl \in TTPayloads}

\* the scores a node hands to the table: around 0, around MATE_OFFSET and
\* around MATE_SCORE - MAX_PLY, of either sign
NodeScores ==
    LET pos_scores == {0, MaxTTScore, MATE_OFFSET, MATE_OFFSET + 1, MATE_SCORE - MAX_PLY,
                       MATE_SCORE - MAX_PLY + 1, MATE_SCORE - MaxNodePly, MATE_SCORE - 1}
    IN  pos_scores \cup {-s : s \in pos_scores}

\* the score negamax hands to tt.store at ply (lines 3108-3113)
store_score(s, ply) ==
    IF s > MATE_SCORE - MAX_PLY THEN s + ply
    ELSE IF s < -MATE_SCORE + MAX_PLY THEN s - ply
    ELSE s

\* the score negamax returns on a hit with tt_dtz = 0 (lines 2787-2796)
hit_score(tt_score, ply) ==
    IF tt_score > MATE_OFFSET THEN Min(tt_score - ply, MATE_SCORE - 1)
    ELSE IF tt_score < -MATE_OFFSET THEN Max(tt_score + ply, -MATE_SCORE + 1)
    ELSE tt_score

\* negamax at ply stores the score s of its node (line 3114)
NodeStore ==
    /\ Stores < MaxStores
    /\ \E key \in TTKeys, depth \in TTDepths, s \in NodeScores, ply \in 0..MaxNodePly :
          /\ tt' = store(tt, key, depth, store_score(s, ply), BOUND_EXACT,
                         make_move_enc(12, 28), 0)
          /\ ttOp' = [op |-> "node_store", stores |-> Stores + 1, key |-> key,
                      depth |-> depth, s |-> s, ply |-> ply]
    /\ TTFrame

\* negamax at the same ply probes the entry it stored and returns on the hit
\* (lines 2779-2797)
NodeHit ==
    /\ ttOp.op = "node_store"
    /\ LET r == probe(tt, ttOp.key, ttOp.depth, -INF, INF,
                      [ProbeOut EXCEPT !.score = 0])
       IN  /\ r.hit /\ r.dtz = 0
           /\ ttOp' = [op |-> "node_hit", stores |-> Stores, key |-> ttOp.key,
                       depth |-> ttOp.depth, s |-> ttOp.s, ply |-> ttOp.ply,
                       ret |-> hit_score(r.score, ttOp.ply)]
    /\ UNCHANGED tt
    /\ TTFrame

(***************************************************************************)
(* Time manager (class TimeManager) as UCI::go sets it and as the workers  *)
(* poll it.  Times are in milliseconds; elapsed() is current_time() minus  *)
(* start_time and is drawn when stop_early is called.                      *)
(***************************************************************************)
\* clock time, increment, movestogo and movetime of the go commands
ClockMs == 2000
IncMs == 100
MovesToGo == 10
MoveTimeMs == 50
\* stop_early is polled at elapsed times 0, ElapsedStep, ... up to MaxElapsedSteps steps
ElapsedStep == 50
MaxElapsedSteps == 6
\* the values of the option Move Overhead (100 is the constructor's)
OverheadMs == 10
DefaultOverhead == 100
\* root moves of the position searched
RootCounts == {1, 32, 40}

\* stands for INT64_MAX, the soft_limit and hard_limit of an infinite or
\* ponder search; stop_early never compares it with a time
Unlimited == -1

\* TimeManager::TimeManager
NewTimeManager ==
    [time_left |-> 0, increment |-> 0, moves_to_go |-> 40, move_time |-> 0,
     move_overhead |-> DefaultOverhead, infinite |-> FALSE, pondering |-> FALSE,
     soft_limit |-> 0, hard_limit |-> 0]

\* the arguments of a go command as UCI::go parses them
GoArgs(wtime, btime, inc, movestogo, movetime, infinite, ponder) ==
    [wtime |-> wtime, btime |-> btime, winc |-> inc, binc |-> inc, movestogo |-> movestogo,
     movetime |-> movetime,
     infinite |-> infinite \/ (movetime = 0 /\ wtime = 0 /\ btime = 0),
     ponder |-> ponder]
ClockGos ==
    {GoArgs(ClockMs, ClockMs \div 2, inc, mtg, 0, FALSE, FALSE) :
        inc \in {0, IncMs}, mtg \in {0, MovesToGo}}
TimeGos ==
    ClockGos \cup {GoArgs(0, 0, 0, 0, MoveTimeMs, FALSE, FALSE),
                   GoArgs(0, 0, 0, 0, 0, TRUE, FALSE),
                   GoArgs(ClockMs, ClockMs, 0, 0, 0, FALSE, TRUE)}

\* tm.set_side(pos.side_to_move(), wtime, btime, winc, binc, movestogo,
\* movetime, infinite, ponder_mode)
set_side(t, side, g) ==
    LET t0 == [t EXCEPT !.infinite = g.infinite, !.pondering = g.ponder]
    IN  IF g.movetime > 0
        THEN [t0 EXCEPT !.move_time = g.movetime, !.soft_limit = g.movetime,
                        !.hard_limit = g.movetime]
        ELSE IF g.infinite \/ g.ponder
        THEN [t0 EXCEPT !.move_time = 0, !.soft_limit = Unlimited, !.hard_limit = Unlimited]
        ELSE LET time_left == IF side = WHITE THEN g.wtime ELSE g.btime
                 increment == IF side = WHITE THEN g.winc ELSE g.binc
                 moves_to_go == IF g.movestogo > 0 THEN g.movestogo ELSE 40
                 base == time_left \div Max(moves_to_go, 5) + increment \div 2
             IN  [t0 EXCEPT !.time_left = time_left, !.increment = increment,
                            !.moves_to_go = moves_to_go, !.soft_limit = base,
                            !.hard_limit = Min(time_left \div 2, base * 5)]

\* limit * factor for time_factor = 0.5 + n / 64.0 clamped to [0.2, 1.5], in
\* 64ths (the product is exact in a double and truncated by int64_t())
scaled(limit, n) ==
    IF limit = Unlimited THEN Unlimited ELSE (limit * Min(32 + n, 96)) \div 64

\* tm.scale_time(time_factor) with n root moves
scale_time(t, n) ==
    [t EXCEPT !.soft_limit = scaled(@, n), !.hard_limit = scaled(@, n)]

\* TimeManager::stop_early at elapsed() = e
stop_early(t, e) ==
    IF t.infinite \/ t.pondering THEN FALSE
    ELSE IF t.move_time > 0 THEN e + t.move_overhead >= t.move_time
    ELSE e + t.move_overhead >= t.hard_limit

NoGo == [side |-> WHITE, n |-> 0, args |-> GoArgs(0, 0, 0, 0, 0, TRUE, FALSE)]
NoPoll == [op |-> "none"]
TimeIdle == time_mgr = NewTimeManager /\ lastGo = NoGo /\ tmPoll = NoPoll

TimeFrame == UNCHANGED <<posVars, searchVars, walkVars, loopVars, ttVars, notationVars, infoVars, nodeVars>>

\* UCI::go up to tm.scale_time on a position with n legal root moves
TmGo ==
    /\ \E g \in TimeGos, side \in Colors, n \in RootCounts :
          /\ time_mgr' = scale_time(set_side(time_mgr, side, g), n)
          /\ lastGo' = [side |-> side, n |-> n, args |-> g]
    /\ tmPoll' = NoPoll
    /\ TimeFrame

\* setoption name Move Overhead
TmSetOverhead ==
    /\ \E ms \in {OverheadMs, DefaultOverhead} :
          /\ ms # time_mgr.move_overhead
          /\ time_mgr' = [time_mgr EXCEPT !.move_overhead = ms]
    /\ tmPoll' = NoPoll
    /\ UNCHANGED lastGo
    /\ TimeFrame

\* a worker of the search lastGo started calls tm.stop_early()
TmStopEarly ==
    /\ lastGo.n > 0
    /\ \E k \in 0..MaxElapsedSteps :
          tmPoll' = [op |-> "stop_early", elapsed |-> k * ElapsedStep,
                     res |-> stop_early(time_mgr, k * ElapsedStep)]
    /\ UNCHANGED <<time_mgr, lastGo>>
    /\ TimeFrame

(***************************************************************************)
(* Move output: move_to_uci on the position UCI::position set up, under    *)
(* the option UCI_Chess960                                                 *)
(***************************************************************************)
\* 5k2/8/8/8/8/8/7P/4K2R w K - 0 1  (standard chess, only White's kingside right left)
FenShortOnly ==
    Fen(<<"5","k","2","/","8","/","8","/","8","/","8","/","8","/","7","P","/","4","K","2","R">>,
        "w", <<"K">>, <<"-">>)
NotationFens == {FenCastleStd, FenShortOnly, FenKingG, FenPawns}

\* char('a' + file_of(s)), char('1' + rank_of(s))
square_text(s) == <<LowerChars[file_of(s) + 1], DigitChars[rank_of(s) + 1]>>

\* pchars[prom] of " pnbrqk"
promotion_char(prom) ==
    CASE prom = KNIGHT -> "n" [] prom = BISHOP -> "b" [] prom = ROOK -> "r"
      [] prom = QUEEN -> "q" [] prom = PAWN -> "p" [] prom = KING -> "k" [] OTHER -> " "

move_to_uci(m, p) ==
    IF m = NO_MOVE \/ m = NULL_MOVE THEN <<"0", "0", "0", "0">>
    ELSE LET from == from_sq(m)
             to == to_sq(m)
             us == IF p.board[from] # 0 THEN piece_color(p.board[from])
                   ELSE IF from < 32 THEN WHITE ELSE BLACK
             rook_sq == p.castle_rook_sq[<<us, castle_side_idx(from, to)>>]
             prom == promotion_type(m)
         IN  IF is_castling(m) /\ p.chess960 /\ rook_sq # -1
             THEN square_text(from) \o square_text(rook_sq)
             ELSE square_text(from) \o square_text(to)
                     \o (IF prom # NO_PIECE THEN <<promotion_char(prom)>> ELSE <<>>)

NoText == [op |-> "none"]
NotationIdle == uci_chess960 = FALSE /\ moveText = NoText

NotationFrame ==
    UNCHANGED <<ustack, posOp, undoSeen, kingMoved, searchVars, walkVars, loopVars,
                ttVars, timeVars, infoVars, nodeVars>>

\* setoption name UCI_Chess960 value true | false
NotSetOption ==
    /\ \E v \in BOOLEAN :
          /\ uci_chess960' = v
          /\ pos' = [pos EXCEPT !.chess960 = v]
    /\ moveText' = NoText
    /\ NotationFrame

\* position startpos | position fen F
NotPosition ==
    /\ \E p \in {init_startpos} \cup {set_fen(f) : f \in NotationFens} :
          pos' = IF uci_chess960 THEN [p EXCEPT !.chess960 = TRUE] ELSE p
    /\ moveText' = NoText
    /\ UNCHANGED uci_chess960
    /\ NotationFrame

\* "bestmove " << move_to_uci(best, &pos), best being a legal move of pos
NotBestmove ==
    /\ \E m \in LegalMoves(pos) :
          moveText' = [op |-> "bestmove", m |-> m, text |-> move_to_uci(m, pos)]
    /\ UNCHANGED <<pos, uci_chess960>>
    /\ NotationFrame

(***************************************************************************)
(* SearchThread::output_info: the score field of the info line thread 0    *)
(* writes after each depth of the iterative deepening                      *)
(***************************************************************************)
\* plies from the root to the mate (negamax returns -MATE_SCORE + ply at a
\* node in check without a legal move)
MaxMatePly == 4
\* centipawn scores of a depth without a forced mate
MaxCp == 1
\* info lines of one search
MaxInfoLines == 3

\* the root score of a mate delivered p plies from the root: the side to
\* move at the root mates when p is odd and is mated when p is even
root_mate_score(p) == IF p % 2 = 1 THEN MATE_SCORE - p ELSE -(MATE_SCORE - p)
InfoScores == {root_mate_score(p) : p \in 1..MaxMatePly} \cup (-MaxCp..MaxCp)

\* score_str: "mate N" / "mate -N" / "cp N" as kind, sign and number
score_str(score) ==
    IF Abs(score) > MATE_SCORE - 1000
    THEN LET mate_dist0 == IF score > 0 THEN MATE_SCORE - score ELSE MATE_SCORE + score
             mate_dist == IF mate_dist0 < 0 THEN 0 ELSE mate_dist0
         IN  [kind |-> "mate", minus |-> ~(score > 0), n |-> mate_dist]
    ELSE [kind |-> "cp", minus |-> score < 0, n |-> Abs(score)]

InfoIdle == infoOut = <<>>
InfoFrame == UNCHANGED <<posVars, searchVars, walkVars, loopVars, ttVars, timeVars, notationVars, nodeVars>>

\* output_info(depth, score, pv) after the depth Len(infoOut) + 1
InfoOutput ==
    /\ Len(infoOut) < MaxInfoLines
    /\ \E score \in InfoScores :
          infoOut' = Append(infoOut, [depth |-> Len(infoOut) + 1, score |-> score,
                                      str |-> score_str(score)])
    /\ InfoFrame

(***************************************************************************)
(* SearchThread::negamax from the generation of the moves to its return:   *)
(* the move loop of one node at a depth below the split, multi-cut and     *)
(* internal-iterative-deepening depths.  The value a child search returns  *)
(* is drawn from ChildScores; the order the sort by score_move leaves the  *)
(* moves in is drawn from the rotations of the generated list.             *)
(***************************************************************************)
RAZOR_MARGIN_D1 == 300
RAZOR_MARGIN_D2 == 400
RAZOR_MARGIN_D3 == 600
FUTILITY_MARGIN_FACTOR == 200
SEE_QUIET_MARGIN == -80
LMP_BASE == 3
LMP_FACTOR == 2

\* depth ranges over 1..MaxLoopDepth, ply over 1..MaxLoopPly
MaxLoopDepth == 2
MaxLoopPly == 2
\* alpha is -LoopAlpha or LoopAlpha, static_eval -LoopEval or LoopEval, a
\* child's value -ChildScore or ChildScore, beta alpha + 1 or alpha + LoopWindow
LoopAlpha == 50
LoopEval == 10
ChildScore == 60
LoopWindow == 100
LoopAlphas == {-LoopAlpha, LoopAlpha}
StaticEvals == {-LoopEval, LoopEval}
ChildScores == {-ChildScore, ChildScore}
LoopPositions ==
    {init_startpos, set_fen(FenKingsE), set_fen(FenTwoMoves), set_fen(FenPawns),
     set_fen(FenStalemate), set_fen(FenMate)}

Rotate(s, k) == [j \in 1..Len(s) |-> s[((j - 1 + k) % Len(s)) + 1]]

razor_margin(depth) ==
    IF depth <= 1 THEN RAZOR_MARGIN_D1
    ELSE IF depth = 2 THEN RAZOR_MARGIN_D2
    ELSE IF depth = 3 THEN RAZOR_MARGIN_D3
    ELSE RAZOR_MARGIN_D3 + 50 * (depth - 3)

\* the node reaches the generation of its moves: razoring and the
\* full-node futility test did not return
reaches_move_loop(in_check, depth, static_eval, alpha, beta) ==
    in_check \/ (/\ ~(depth <= 6 /\ static_eval + razor_margin(depth) < alpha)
                 /\ ~(depth <= 7 /\ static_eval - FUTILITY_MARGIN_FACTOR * depth >= beta))

\* if (depth <= 3 && !in_check && !pos.piece_on(to_sq(m))) ... continue
futility_skips(n, m, low_order) ==
    /\ n.depth <= 3 /\ ~n.in_check /\ n.p.board[to_sq(m)] = 0
    /\ n.static_eval + SEE_QUIET_MARGIN + n.depth * 50
          + (IF low_order THEN 4 * n.depth ELSE 0) <= n.alpha

\* if (!pos.piece_on(to_sq(m)) && !in_check && depth <= 7 && i >= LMP_BASE + depth * LMP_FACTOR) ...
late_move_skips(n, m) ==
    /\ n.p.board[to_sq(m)] = 0 /\ ~n.in_check /\ n.depth <= 7
    /\ n.i >= LMP_BASE + n.depth * LMP_FACTOR
    /\ (~n.improving \/ n.i >= LMP_BASE + n.depth * LMP_FACTOR * 2)

pruning_skips(n, m, low_order) == futility_skips(n, m, low_order) \/ late_move_skips(n, m)

NoNode == [pc |-> "idle"]
MoveLoopIdle == mloop = NoNode

MoveLoopFrame ==
    UNCHANGED <<posVars, searchVars, walkVars, loopVars, ttVars, timeVars, notationVars, infoVars>>

\* negamax(pos, depth, alpha, beta, ply, ...) up to "Value best_score = -INF"
MlEnter ==
    /\ mloop.pc = "idle"
    /\ \E p \in LoopPositions, depth \in 1..MaxLoopDepth, ply \in 1..MaxLoopPly,
          alpha \in LoopAlphas, wide \in BOOLEAN, static_eval \in StaticEvals,
          improving \in BOOLEAN :
          LET beta == alpha + (IF wide THEN LoopWindow ELSE 1)
              in_check == is_check(p)
              gen == generate_moves(p, FALSE)
          IN  /\ reaches_move_loop(in_check, depth, static_eval, alpha, beta)
              /\ improving => ply >= 2
              /\ IF gen = <<>>
                 THEN mloop' = [pc |-> "returned", p |-> p, in_check |-> in_check,
                                ply |-> ply, no_move |-> TRUE, stored |-> FALSE,
                                result |-> IF in_check THEN -MATE_SCORE + ply ELSE 0]
                 ELSE \E k \in 0..(Len(gen) - 1) :
                         mloop' = [pc |-> "loop", p |-> p, in_check |-> in_check,
                                   depth |-> depth, ply |-> ply, alpha |-> alpha,
                                   beta |-> beta, static_eval |-> static_eval,
                                   improving |-> improving, scored |-> Rotate(gen, k),
                                   i |-> 0, best_score |-> -INF, best_move |-> NO_MOVE,
                                   bound |-> BOUND_UPPER, pruned |-> 0]
    /\ MoveLoopFrame

\* one iteration of "for (size_t i = 0; i < scored.size(); ++i)"
MlMove ==
    /\ mloop.pc = "loop"
    /\ mloop.i < Len(mloop.scored)
    /\ LET n == mloop
           m == n.scored[n.i + 1]
           next == [n EXCEPT !.i = @ + 1]
       IN  \E low_order \in BOOLEAN, score \in ChildScores :
              mloop' =
                 IF n.p.board[to_sq(m)] # 0 /\ piece_type(n.p.board[to_sq(m)]) = KING
                 THEN next
                 ELSE IF pruning_skips(n, m, low_order)
                 THEN [next EXCEPT !.pruned = @ + 1]
                 ELSE IF \E u \in UBOutcomes : mover_in_check(make_move(n.p, m, u))
                 THEN next
                 ELSE IF score > n.best_score
                 THEN [next EXCEPT !.best_score = score, !.best_move = m,
                                   !.alpha = IF score > n.alpha THEN score ELSE @,
                                   !.bound = IF score >= n.beta THEN BOUND_LOWER
                                             ELSE IF score > n.alpha THEN BOUND_EXACT ELSE @,
                                   !.pc = IF score > n.alpha /\ score >= n.beta
                                          THEN "after_loop" ELSE @]
                 ELSE next
    /\ MoveLoopFrame

\* after the loop: the no-move result, tt.store and the return
MlFinish ==
    /\ \/ mloop.pc = "after_loop"
       \/ mloop.pc = "loop" /\ mloop.i = Len(mloop.scored)
    /\ LET n == mloop
           no_move == n.best_score = -INF
           best_score == IF no_move THEN (IF n.in_check THEN -MATE_SCORE + n.ply ELSE 0)
                         ELSE n.best_score
       IN  mloop' = [pc |-> "returned", p |-> n.p, in_check |-> n.in_check, ply |-> n.ply,
                     no_move |-> no_move, stored |-> TRUE,
                     store_score |-> store_score(best_score, n.ply),
                     bound |-> IF no_move THEN BOUND_EXACT ELSE n.bound,
                     best_move |-> IF no_move THEN NO_MOVE ELSE n.best_move,
                     pruned |-> n.pruned,
                     result |-> best_score]
    /\ MoveLoopFrame

(***************************************************************************)
(* The commands of UCI::run that write the root position (position,        *)
(* ucinewgame, perft) beside a search: every SearchThread holds a          *)
(* reference to the UCI object's pos (root_pos) and reads it while it runs *)
(***************************************************************************)
PositionCmd == [cmd |-> "position", limit |-> "none", ponder |-> FALSE, depth |-> 0]
NewGameCmd == [cmd |-> "ucinewgame", limit |-> "none", ponder |-> FALSE, depth |-> 0]
PerftCmd == [cmd |-> "perft", limit |-> "none", ponder |-> FALSE, depth |-> 0]
RootCmds == {PositionCmd, NewGameCmd, PerftCmd}

\* go depth D [ponder] followed by a command that writes pos, and
\* go depth D ponder, stop, position
PonderScripts ==
    {<<GoCmd("none", p, GoDepth), c>> : p \in BOOLEAN, c \in RootCmds}
       \cup {<<GoCmd("none", TRUE, GoDepth), StopCmd, PositionCmd>>}
PonderRoots == {set_fen(FenTwoMoves)}
\* position startpos | position fen 4k3/8/8/8/8/8/8/4K3 w - - 0 1
PositionTargets == {init_startpos, set_fen(FenKingsE)}

RootFrame ==
    UNCHANGED <<thread_count, multi_pv, script, nSent, uciPc, search_active, pondering,
                pondering_active, root_moves, tm, out, goLog, stopSentRunning, stopOutcome,
                sharedVars, workers, ustack, walkVars, loopVars, timeVars, notationVars,
                infoVars, nodeVars>>

\* run() reads "position": position(args) with no moves given
UciPosition ==
    /\ uciPc = "idle" /\ nRead < nSent
    /\ script[nRead + 1].cmd = "position"
    /\ nRead' = nRead + 1
    /\ \E p \in PositionTargets : pos' = p
    /\ legal_root' = LegalMoves(pos')
    /\ posOp' = "position"
    /\ kingMoved' = [c \in Colors |-> FALSE]
    /\ UNCHANGED <<undoSeen, ttVars>>
    /\ RootFrame

\* run() reads "ucinewgame": pos.init_startpos(); tt.clear()
UciNewGame ==
    /\ uciPc = "idle" /\ nRead < nSent
    /\ script[nRead + 1].cmd = "ucinewgame"
    /\ nRead' = nRead + 1
    /\ pos' = init_startpos
    /\ legal_root' = LegalMoves(pos')
    /\ posOp' = "ucinewgame"
    /\ kingMoved' = [c \in Colors |-> FALSE]
    /\ tt' = EmptyTable
    /\ UNCHANGED <<undoSeen, ttOp>>
    /\ RootFrame

\* the root loop of perft 1: every generated move is made on pos and undone
RECURSIVE perft_walk(_, _, _, _)
perft_walk(p, mvs, k, u) ==
    IF k > Len(mvs) THEN p
    ELSE LET m == mvs[k]
             made == make_move(p, m, u)
         IN  perft_walk(undo_move(made, m, p.board[to_sq(m)], castling_rights(p),
                                  p.ep_square, p.fifty, u),
                        mvs, k + 1, u)

\* run() reads "perft" (depth 1) on a position with a generated move
UciPerft ==
    /\ uciPc = "idle" /\ nRead < nSent
    /\ script[nRead + 1].cmd = "perft"
    /\ generate_moves(pos, FALSE) # <<>>
    /\ nRead' = nRead + 1
    /\ \E u \in UBOutcomes : pos' = perft_walk(pos, generate_moves(pos, FALSE), 1, u)
    /\ legal_root' = LegalMoves(pos')
    /\ posOp' = "perft"
    /\ undoSeen' = TRUE
    /\ UNCHANGED <<kingMoved, ttVars>>
    /\ RootFrame

\* the units as constructed
UnitIdle == TTIdle /\ TimeIdle /\ NotationIdle /\ InfoIdle /\ MoveLoopIdle

(***************************************************************************)
(* Specifications                                                          *)
(***************************************************************************)
\* make_move / undo_move from the start positions
PosInit ==
    /\ pos \in StartPositions
    /\ ustack = <<>>
    /\ posOp = "init"
    /\ undoSeen = FALSE
    /\ kingMoved = [c \in Colors |-> FALSE]
Init == PosInit /\ SearchIdle /\ WalkIdle /\ LoopIdle /\ UnitIdle
Next == PosMake \/ PosUndo
Spec == Init /\ [][Next]_vars

\* one line of the search: moves, null moves and their undoing
LineInit ==
    /\ pos \in LinePositions
    /\ ustack = <<>>
    /\ posOp = "init"
    /\ undoSeen = FALSE
    /\ kingMoved = [c \in Colors |-> FALSE]
LineSpecInit == LineInit /\ SearchIdle /\ WalkIdle /\ LoopIdle /\ UnitIdle
LineNext == LineMake \/ LineNull \/ PosUndo
LineSpec == LineSpecInit /\ [][LineNext]_vars

\* generate_moves in the start positions and one move further
GenSpecInit == PosInit /\ SearchIdle /\ WalkIdle /\ LoopIdle /\ UnitIdle
GenNext == GenMake \/ PosUndo
GenSpec == GenSpecInit /\ [][GenNext]_vars

\* go, stop, ponderhit and quit with 1..MaxThreads threads and MultiPV 1..MaxMultiPV
SearchWorker(i) ==
    \/ WStart(i) \/ WLoopEnter(i) \/ WLoopExit(i)
    \/ WIterDone(i) \/ WIterLimit(i) \/ WIterAbort(i) \/ WPost(i)
    \/ WBarrierArrive(i) \/ WBarrierRelease(i) \/ WBarrierAck(i) \/ WBarrierLeave(i)
    \/ WLatch(i) \/ WLatchMove(i) \/ WLatchStore(i)
SearchNext ==
    \/ SendCmd
    \/ UciGo \/ GoStopJoined \/ GoJoined
    \/ UciStop \/ StopJoined
    \/ UciPonderhit \/ PonderhitJoined
    \/ \E i \in ThreadIds : SearchWorker(i)
SearchSpecInit ==
    SearchInit(SearchScripts, 1..MaxThreads, 1..MaxMultiPV) /\ WalkIdle /\ LoopIdle /\ UnitIdle
SearchSpec == SearchSpecInit /\ [][SearchNext]_vars

\* the commands of SearchScripts on the positions without a legal move
NoMoveNext == SendCmd \/ UciGo \/ UciStop \/ UciPonderhit
NoMoveSpecInit ==
    SearchInitOn(NoMovePositions, SearchScripts, 1..MaxThreads, 1..MaxMultiPV)
       /\ WalkIdle /\ LoopIdle /\ UnitIdle
NoMoveSpec == NoMoveSpecInit /\ [][NoMoveNext]_vars

\* go depth D with several threads and MultiPV = 1, split points included;
\* every thread that can take a step is scheduled again
DepthScripts == {<<GoCmd("none", FALSE, d)>> : d \in {1, SplitMinDepth + 1}}
DepthWorker(i) ==
    \/ WStart(i) \/ WLoopEnter(i) \/ WLoopExit(i)
    \/ WIterDone(i) \/ WPost(i)
    \/ WSplitOpen(i) \/ WSplitLeave(i) \/ WSplitClose(i)
    \/ WLatch(i) \/ WLatchMove(i) \/ WLatchStore(i)
DepthUci == UciGo \/ GoJoined
DepthNext == SendCmd \/ DepthUci \/ \E i \in ThreadIds : DepthWorker(i)
DepthSpecInit == SearchInit(DepthScripts, 2..MaxThreads, {1}) /\ WalkIdle /\ LoopIdle /\ UnitIdle
DepthSpec ==
    /\ DepthSpecInit
    /\ [][DepthNext]_vars
    /\ WF_vars(SendCmd)
    /\ WF_vars(DepthUci)
    /\ \A i \in ThreadIds : WF_vars(DepthWorker(i))

\* one worker's walk of the tree with the stop flag set at any moment
WalkNext ==
    \/ WalkRootMove \/ WalkRootNext
    \/ WalkPreCall \/ WalkLoopMove \/ WalkToQuiescence \/ WalkCapture \/ WalkReturn
    \/ WalkStop
WalkSpecInit == PosIdle /\ SearchIdle /\ WalkInit /\ LoopIdle /\ UnitIdle
WalkSpec == WalkSpecInit /\ [][WalkNext]_vars

\* the command loop on any MaxLines input lines
LoopNext ==
    LoopOther \/ LoopSetoption \/ LoopGo \/ LoopLearn \/ LoopQuit \/ LoopEof
LoopSpecInit == PosIdle /\ SearchIdle /\ WalkIdle /\ LoopInit /\ UnitIdle
LoopSpec == LoopSpecInit /\ [][LoopNext]_vars

\* probe on the table one store leaves
ProbeNext == TTProbe
ProbeSpecInit ==
    /\ PosIdle /\ SearchIdle /\ WalkIdle /\ LoopIdle
    /\ tt \in OneResident /\ ttOp = NoTTOp /\ TimeIdle /\ NotationIdle /\ InfoIdle /\ MoveLoopIdle
ProbeSpec == ProbeSpecInit /\ [][ProbeNext]_vars

\* store and new_search in any order
TTNext == TTStore \/ TTNewSearch
TTSpecInit == PosIdle /\ SearchIdle /\ WalkIdle /\ LoopIdle /\ UnitIdle
TTSpec == TTSpecInit /\ [][TTNext]_vars

\* a node stores its score and a later visit at the same ply hits the entry
NodeNext == NodeStore \/ NodeHit \/ TTNewSearch
NodeSpecInit == PosIdle /\ SearchIdle /\ WalkIdle /\ LoopIdle /\ UnitIdle
NodeSpec == NodeSpecInit /\ [][NodeNext]_vars

\* go commands of every kind one after the other, stop_early polled in between
TimeNext == TmGo \/ TmSetOverhead \/ TmStopEarly
TimeSpecInit == PosIdle /\ SearchIdle /\ WalkIdle /\ LoopIdle /\ UnitIdle
TimeSpec == TimeSpecInit /\ [][TimeNext]_vars

\* the option UCI_Chess960, position fen and the moves written for the position
NotationNext == NotSetOption \/ NotPosition \/ NotBestmove
NotationSpecInit == PosIdle /\ SearchIdle /\ WalkIdle /\ LoopIdle /\ UnitIdle
NotationSpec == NotationSpecInit /\ [][NotationNext]_vars

\* the info lines of one search
InfoNext == InfoOutput
InfoSpecInit ==
    PosIdle /\ SearchIdle /\ WalkIdle /\ LoopIdle /\ UnitIdle
InfoSpec == InfoSpecInit /\ [][InfoNext]_vars

\* the latch updates of the workers of one search and the bestmove of go()
LatchNext == GoJoined \/ \E i \in ThreadIds : LatchWorker(i)
LatchSpecInit == LatchInit /\ WalkIdle /\ LoopIdle /\ UnitIdle
LatchSpec == LatchSpecInit /\ [][LatchNext]_vars

\* go on root positions with 1, 2, 3 and 5 legal moves: the workers of the
\* search as UCI::go starts them
PartNext == SendCmd \/ UciGo
PartSpecInit ==
    SearchInitOn(PartPositions, SearchScripts, 1..MaxThreads, 1..MaxMultiPV)
       /\ WalkIdle /\ LoopIdle /\ UnitIdle
PartSpec == PartSpecInit /\ [][PartNext]_vars

\* one node of negamax: its move loop
MoveLoopNext == MlEnter \/ MlMove \/ MlFinish
MoveLoopSpecInit == PosIdle /\ SearchIdle /\ WalkIdle /\ LoopIdle /\ UnitIdle
MoveLoopSpec == MoveLoopSpecInit /\ [][MoveLoopNext]_vars

\* go [ponder] followed by position, ucinewgame or perft, MultiPV = 1
PonderWorker(i) ==
    \/ WStart(i) \/ WLoopEnter(i) \/ WLoopExit(i)
    \/ WIterDone(i) \/ WIterAbort(i) \/ WPost(i)
    \/ WLatch(i) \/ WLatchMove(i) \/ WLatchStore(i)
PonderNext ==
    \/ SendCmd
    \/ UciGo \/ GoJoined
    \/ UciStop \/ StopJoined
    \/ UciPosition \/ UciNewGame \/ UciPerft
    \/ \E i \in ThreadIds : PonderWorker(i)
PonderSpecInit ==
    SearchInitOn(PonderRoots, PonderScripts, 1..MaxThreads, {1})
       /\ WalkIdle /\ LoopIdle /\ UnitIdle
PonderSpec == PonderSpecInit /\ [][PonderNext]_vars

(***************************************************************************)
(* Properties                                                              *)
(***************************************************************************)
\* C1: undo_move after make_move, called with the captured piece and the
\* castling rights, en-passant square and halfmove clock saved immediately
\* before make_move, restores the position exactly.
C1_RoundTrip ==
    [][(posOp' = "undo" /\ Len(ustack') < Len(ustack))
          => pos' = ustack[Len(ustack)].before]_vars

\* board[s] holds piece (c, pt) iff bit s is set in pieces[c][pt], no square
\* is set in two piece bitboards, occupied is the union of the bitboards
RepresentationsAgree(p) ==
    /\ \A s \in Squares, c \in Colors, pt \in PieceTypes :
          (p.board[s] = piece_code(c, pt)) <=> (s \in p.pieces[<<c, pt>>])
    /\ \A i, j \in Colors \X PieceTypes : i # j => p.pieces[i] \cap p.pieces[j] = {}
    /\ p.occupied = UNION {p.pieces[i] : i \in Colors \X PieceTypes}

\* C2: in every position reached from init_startpos or set_fen by
\* make_move on generated moves, the mailbox, the piece bitboards and
\* occupied agree.
C2_BoardsAgree == ~undoSeen => RepresentationsAgree(pos)

\* C3: a castling slot that is not -1 names a square on which a rook of
\* that colour stands, and the king of that colour has not moved.
C3_CastleSlots ==
    ~undoSeen =>
       \A c \in Colors, s \in {0, 1} :
          pos.castle_rook_sq[<<c, s>>] # -1 =>
             /\ pos.castle_rook_sq[<<c, s>>] \in pos.pieces[<<c, ROOK>>]
             /\ ~kingMoved[c]

\* the bestmove lines go() itself printed for the g-th go command
GoLines4(g) == {k \in DOMAIN out : out[k].by = "go" /\ out[k].gid = g}
\* the g-th go command has been handled to its end
GoHandled(g) == g < Len(goLog) \/ (g = Len(goLog) /\ uciPc \in {"idle", "ended"})

\* C4: a non-ponder go on a position with a legal move prints exactly one
\* bestmove line, after every worker has been joined, and the move is one
\* of the legal moves of the position.
C4_OneLegalBestmove ==
    legal_root # {} =>
       \A g \in DOMAIN goLog :
          ~goLog[g] =>
             /\ Cardinality(GoLines4(g)) <= 1
             /\ GoHandled(g) /\ uciPc # "go_stop_join" => Cardinality(GoLines4(g)) = 1
             /\ \A k \in GoLines4(g) : out[k].joined /\ out[k].arg \in legal_root

\* C5: a stop command sent while workers are running is answered: stop()
\* sets the flag, joins the workers and prints bestmove.
C5_StopAnswered == stopSentRunning => stopOutcome \notin {"ignored", "silent"}

\* C6: from the launch of the workers to their join stop_search only
\* changes from false to true.
C6_StopMonotonic ==
    [][(SearchRunning /\ stop_search) => stop_search']_vars

\* C7: once stop_search is true the worker is back in search() after at
\* most 256 more nodes.
C7_UnwindWithin256 == wextra <= PollInterval

\* the go command has been answered: one bestmove line printed by go(), every
\* worker joined, no split point left, the UCI thread back at its loop
DepthSearchDone ==
    /\ nRead = Len(script) /\ uciPc = "idle" /\ ~search_active
    /\ Cardinality(GoLines4(1)) = 1
    /\ \A i \in ThreadIds : workers[i].pc = "none"
    /\ active_splits = {}

\* C8: with Threads = N > 1 and MultiPV = 1 a go depth D search terminates:
\* no thread stays blocked at a split point, every worker returns, the join
\* completes and bestmove is printed.
C8_DepthSearchTerminates == <>[]DepthSearchDone

\* a pass of the deepest iteration opened and closed a split point and every
\* worker has returned from search(), go() being about to join them
C8_SplitSearchReturned ==
    /\ thread_count > 1 /\ multi_pv = 1
    /\ uciPc = "go_join" /\ AllReturned
    /\ \E i \in ThreadIds : workers[i].pc = "returned" /\ workers[i].nsplits > 0

\* a worker waits at the MultiPV barrier and no thread is left that could
\* let it pass: every other worker waits there too or has returned
BarrierBlocked ==
    /\ \E i \in ThreadIds : workers[i].pc \in {"wait_continue", "wait_reset"}
    /\ \A i \in ThreadIds :
          \/ workers[i].pc \in {"none", "returned"}
          \/ workers[i].pc = "wait_continue" /\ ~depth_continue
          \/ workers[i].pc = "wait_reset" /\ depth_continue

\* C9: no worker is blocked at the MultiPV barrier for ever.
C9_BarrierPasses == ~BarrierBlocked

\* C10: the command loop ends only on quit or at the end of the input.
C10_LoopEndsOnQuit == loopPc \in {"idle", "reading", "quit", "eof"}

\* C11: go on a position with no legal move (checkmate, stalemate, the empty
\* board a malformed FEN leaves) prints bestmove 0000 and nothing else,
\* starts no worker thread and leaves search_active false, the UCI thread
\* being back at its loop for the next command.
C11_NoMoveGo ==
    legal_root = {} =>
       /\ ~search_active
       /\ \A i \in ThreadIds : workers[i].pc = "none"
       /\ uciPc \in {"idle", "ended"}
       /\ Len(out) = Len(goLog)
       /\ \A g \in DOMAIN goLog :
             /\ Cardinality(GoLines4(g)) = 1
             /\ \A k \in GoLines4(g) : out[k].arg = NO_MOVE

\* two go commands were read on a position with no legal move and each was
\* answered with bestmove 0000
C11_NoMoveAnsweredTwice ==
    /\ legal_root = {} /\ pos.occupied # {}
    /\ nRead = 2 /\ Len(goLog) = 2 /\ goLog[1]
    /\ Len(out) = 2 /\ out[1].arg = NO_MOVE /\ out[2].arg = NO_MOVE

\* the entry of the bucket the last call addressed
Bucket == tt.table[ttOp.key % TTSize]

\* C12: probe returns hit = true iff the bucket at key mod N holds the same
\* key, its depth is >= the requested depth and its bound is EXACT, or LOWER
\* with score >= beta, or UPPER with score <= alpha; with a matching key the
\* stored move and dtz are returned whether or not it is a hit.
C12_ProbeHit ==
    ttOp.op = "probe" =>
       /\ ttOp.res.hit <=>
             /\ Bucket.key = ttOp.key
             /\ Bucket.depth >= ttOp.depth
             /\ \/ Bucket.bound = BOUND_EXACT
                \/ Bucket.bound = BOUND_LOWER /\ Bucket.score >= ttOp.beta
                \/ Bucket.bound = BOUND_UPPER /\ Bucket.score <= ttOp.alpha
       /\ Bucket.key = ttOp.key =>
             ttOp.res.move = Bucket.move /\ ttOp.res.dtz = Bucket.dtz

\* a probe found its key in an entry of too small a depth: no hit, and the
\* stored move came back
C12_DepthMissKeepsMove ==
    /\ ttOp.op = "probe" /\ ~ttOp.res.hit
    /\ Bucket.key = ttOp.key /\ Bucket.key >= TTSize
    /\ Bucket.depth < ttOp.depth /\ Bucket.bound = BOUND_EXACT
    /\ ttOp.res.move = Bucket.move /\ Bucket.move # NO_MOVE

\* C13: store overwrites the bucket at key mod N unless the resident entry
\* has strictly greater depth under the same age, in which case the resident
\* is kept; a resident of an older search is always replaced.
C13_Replacement ==
    [][ttOp'.op = "store" =>
          LET idx == ttOp'.key % TTSize
              e == tt.table[idx]
              incoming == [key |-> ttOp'.key, depth |-> ttOp'.depth, score |-> ttOp'.score,
                           bound |-> ttOp'.bound, move |-> ttOp'.move, age |-> tt.age,
                           dtz |-> ttOp'.dtz]
          IN  tt'.table[idx] = IF e.depth > ttOp'.depth /\ e.age = tt.age
                               THEN e ELSE incoming]_vars

\* C14: a score stored from ply p and hit at ply p comes back unchanged.
C14_MateInverse == ttOp.op = "node_hit" => ttOp.ret = ttOp.s

\* the go command has clock parameters: wtime or btime given, no movetime,
\* not infinite, not ponder
IsClockGo(g) ==
    /\ g.args.wtime > 0 \/ g.args.btime > 0
    /\ g.args.movetime = 0 /\ ~g.args.infinite /\ ~g.args.ponder

\* min(time_left / 2, 5 * soft_limit) of the go command's own parameters,
\* scaled by the root-move factor
HardLimitOf(g) ==
    LET time_left == IF g.side = WHITE THEN g.args.wtime ELSE g.args.btime
        increment == IF g.side = WHITE THEN g.args.winc ELSE g.args.binc
        moves_to_go == IF g.args.movestogo > 0 THEN g.args.movestogo ELSE 40
        soft == time_left \div Max(moves_to_go, 5) + increment \div 2
    IN  (Min(time_left \div 2, soft * 5) * Min(32 + g.n, 96)) \div 64

\* C15: during a search started by a go with clock parameters stop_early()
\* is true exactly when elapsed + move_overhead >= hard_limit, the limit
\* being derived from that go command, whatever the go commands before it.
C15_StopEarlyHardLimit ==
    tmPoll.op = "stop_early" /\ IsClockGo(lastGo) =>
       (tmPoll.res <=> tmPoll.elapsed + time_mgr.move_overhead >= HardLimitOf(lastGo))

\* C17: once ponderhit has been read during a ponder search the time
\* manager no longer treats the search as pondering (the workers go on
\* under the time limits until ponderhit's join completes).
C17_PonderhitEndsPondering ==
    uciPc = "ponderhit_join" => ~pondering /\ ~tm.pondering

\* C16: while the option UCI_Chess960 is false every castling move is
\* written king-to-destination (e1g1, e1c1), whatever FEN the position was
\* set from; king-to-rook-origin is written only with the option true.
C16_CastlingNotation ==
    moveText.op = "bestmove" /\ is_castling(moveText.m) /\ ~uci_chess960 =>
       moveText.text = square_text(from_sq(moveText.m)) \o square_text(to_sq(moveText.m))

\* C18: make_move(NULL_MOVE) flips the side to move, sets the en-passant
\* square to -1 and pushes a hash onto the history; piece placement, the
\* castling rook slots and the halfmove clock stay as they were.
C18_NullMove ==
    [][posOp' = "null" =>
          /\ pos'.side = 1 - pos.side
          /\ pos'.ep_square = -1
          /\ pos'.history = Append(pos.history, pos.hash)
          /\ pos'.pieces = pos.pieces /\ pos'.board = pos.board /\ pos'.occupied = pos.occupied
          /\ pos'.castle_rook_sq = pos.castle_rook_sq
          /\ pos'.fifty = pos.fifty]_vars

\* the earlier positions of the current line an even number of plies back
\* whose hash is the hash of the current position
EarlierSame ==
    {i \in 1..Len(ustack) :
        (Len(ustack) - i + 1) % 2 = 0 /\ ustack[i].before.hash = pos.hash}

\* C19: after any sequence of make_move / undo_move calls, null moves
\* included, from init_startpos or set_fen, is_repetition(n) for n >= 1 is
\* true exactly when the hash of the current position is the hash of at
\* least n earlier positions of the line 2, 4, 6, ... plies back; the
\* current position is not counted.
C19_Repetition ==
    \A n \in 1..MaxCount : is_repetition(pos, n) <=> Cardinality(EarlierSame) >= n
\* a king move closes the second repetition of a position of the line
C19_SecondRepetition ==
    posOp = "make" /\ ustack[Len(ustack)].m # NULL_MOVE /\ is_repetition(pos, 2)

\* the moves of full generation that capture: the destination holds a piece
\* of the side not to move, or the move is an en-passant capture
CapturingMoves(p) ==
    {m \in SeqToSet(generate_moves(p, FALSE)) :
        \/ (p.board[to_sq(m)] # 0 /\ piece_color(p.board[to_sq(m)]) = 1 - p.side)
        \/ is_en_passant(m)}

MateMoves(p) == (p + 1) \div 2
\* plies to the mate behind a root score
MatePlies(score) == MATE_SCORE - Abs(score)

\* C21: the info line reports a forced mate in moves: a root score of
\* MATE_SCORE - p is written as mate ceil(p/2), the mated side's score as
\* mate -N.
C21_MateInMoves ==
    \A i \in 1..Len(infoOut) :
       infoOut[i].str.kind = "mate" =>
          /\ infoOut[i].str.n = MateMoves(MatePlies(infoOut[i].score))
          /\ infoOut[i].str.minus = (infoOut[i].score < 0)

\* the last worker arrives at the MultiPV barrier and releases it
BarrierReleased == multi_pv > 1 /\ ~depth_continue /\ depth_continue'

\* C22: with MultiPV = K > 1, when the last worker arrives at the barrier
\* of a depth that no stop has cut short, the lines info ... multipv i,
\* i = 1 .. min(K, number of root moves), of that depth are written,
\* whichever worker arrives last.
C22_MultiPVLines ==
    [][(BarrierReleased /\ ~stop_search) =>
          /\ Len(out') = Len(out) + 1
          /\ out'[Len(out')].by = "info"
          /\ out'[Len(out')].gid = Len(goLog)
          /\ out'[Len(out')].lines = Min(multi_pv, Len(root_moves))]_vars

\* C23: a worker stores its best move in shared_best_move only when its
\* best score was strictly greater than shared_best_score at the moment of
\* its compare-exchange; a worker whose score was equal or lower leaves
\* shared_best_score and shared_best_move as they are.
C23_StrictImprovement ==
    [][\A i \in ThreadIds :
          (workers[i].pc = "latch_store" /\ workers'[i].pc = "returned")
             => workers[i].exchanged]_vars

\* the workers of the search that have returned
Finished == {i \in ThreadIds : workers[i].pc = "returned"}

\* C24: when all workers have finished, whatever the order of their latch
\* updates, (shared_best_move, shared_best_score) is the (best move, best
\* score) of one worker and shared_best_score is the largest of the
\* workers' best scores.
C24_LatchPair ==
    (uciPc = "go_join" /\ AllReturned /\ Finished # {}) =>
       /\ \E i \in Finished : /\ workers[i].best_move = shared_best_move
                              /\ workers[i].best_score = shared_best_score
       /\ \A i \in Finished : workers[i].best_score <= shared_best_score

CeilDiv(a, b) == IF a % b = 0 THEN a \div b ELSE a \div b + 1
\* the indices [i * ceil(m/N), min((i+1) * ceil(m/N), m)) of the root move list
PartLo(i) == i * CeilDiv(Len(root_moves), thread_count)
PartHi(i) == Min((i + 1) * CeilDiv(Len(root_moves), thread_count), Len(root_moves))
RECURSIVE ConcatMoves(_)
ConcatMoves(i) ==
    IF i = MaxThreads THEN <<>> ELSE workers[i].moves \o ConcatMoves(i + 1)

LeavesSplitWait(i) == workers[i].pc = "wait_split" /\ workers'[i].pc # "wait_split"

\* C26: the master of a split point leaves its wait on the split point's
\* condition variable, erases the split point from active_splits and
\* deletes it only when finished is true and no thread is inside
\* help_at_split for it; every split point published in active_splits
\* exists, so that no thread is handed a deleted one.
C26_SplitLifetime ==
    [][/\ \A i \in ThreadIds :
             LeavesSplitWait(i) =>
                /\ TopSplit(i).finished /\ TopSplit(i).workers = 0
                /\ <<i, Len(workers[i].splits)>> \notin active_splits'
                /\ workers'[i].splits = SubSeq(workers[i].splits, 1, Len(workers[i].splits) - 1)
       /\ \A e \in active_splits' : e[2] <= Len(workers'[e[1]].splits)]_vars
\* a worker has opened a split point in this pass, searched its moves as the
\* only thread in help_at_split, and deleted it
C26_SplitDeleted ==
    \E i \in ThreadIds :
       /\ workers[i].pc = "iter" /\ workers[i].nsplits > 0 /\ workers[i].splits = <<>>
       /\ \A e \in active_splits : e[1] # i

\* worker i is through with its root partition: it leaves the latch
DoneWithPartition(i) ==
    /\ workers[i].pc \in {"latch", "latch_move", "latch_store"}
    /\ workers'[i].pc \notin {"latch", "latch_move", "latch_store"}
\* another worker is still searching and no stop has been requested
SearchStillRunning(i) ==
    /\ ~stop_search
    /\ \E j \in ThreadIds \ {i} : workers[j].pc \in {"start", "loop", "iter", "post", "help", "wait_split"}

\* C27: a worker whose own root partition is exhausted while the search is
\* still running enters the work-stealing helper loop (help_search), where
\* it waits for a split point to be published and helps at it.
C27_IdleWorkerHelps ==
    [][\A i \in ThreadIds :
          (DoneWithPartition(i) /\ SearchStillRunning(i)) => workers'[i].pc = "help_search"]_vars

\* the side generate_moves emitted a castling move for: it encodes side s
\* as the king's destination, the g-file for s = 0 and the c-file for s = 1
generated_side(m) == IF file_of(to_sq(m)) = 6 THEN 0 ELSE 1

\* C28: make_move of a generated castling move of side s takes the rook
\* from castle_rook_sq[us][s]; afterwards the king stands on the g-file
\* (s = 0) or c-file (s = 1) and that rook on the f-file or d-file, also
\* when the king started on its destination file or to the right of it
\* (positions reached by make_move alone).
C28_CastlingSide ==
    [][(posOp' = "make" /\ Len(ustack') > Len(ustack) /\ ~undoSeen
           /\ is_castling(ustack'[Len(ustack')].m))
          => LET m == ustack'[Len(ustack')].m
                 us == pos.side
                 s == generated_side(m)
                 rank == IF us = WHITE THEN 0 ELSE 7
                 rook_sq == pos.castle_rook_sq[<<us, s>>]
                 king_dest == make_square(IF s = 0 THEN 6 ELSE 2, rank)
                 rook_dest == make_square(IF s = 0 THEN 5 ELSE 3, rank)
             IN  /\ to_sq(m) = king_dest
                 /\ pos'.board[king_dest] = piece_code(us, KING)
                 /\ pos'.board[rook_dest] = piece_code(us, ROOK)
                 /\ (rook_sq \notin {rook_dest, king_dest}) => pos'.board[rook_sq] = 0
                 /\ pos'.pieces[<<us, ROOK>>]
                       = (pos.pieces[<<us, ROOK>>] \ {rook_sq}) \cup {rook_dest}]_vars

\* C29: negamax returns, and stores as EXACT, the no-legal-move result
\* (-MATE_SCORE + ply in check, 0 otherwise) only for a node without a
\* legal move; a node whose legal moves were all skipped by the per-move
\* futility test or by late-move pruning does not get it.
C29_NoMoveResult ==
    (mloop.pc = "returned" /\ mloop.no_move) => LegalMoves(mloop.p) = {}

\* run() handles a command that writes the UCI object's pos
WritesRoot ==
    nRead' = nRead + 1 /\ script[nRead'].cmd \in {"position", "ucinewgame", "perft"}

\* C30: while worker threads of a search are running no command writes the
\* root position they read: position, ucinewgame and perft are handled
\* only when no worker thread runs.
C30_RootStable == [][WritesRoot => ~SearchRunning]_vars

=============================================================================
